---- MODULE Spec2Model ----
(***************************************************************************)
(* A model of the REX ETP tracker's fetch and extraction pipeline.         *)
(*                                                                         *)
(* Part I   - etp_tracker/async_client.py: AsyncSECClient, its two disk    *)
(*            caches, the admission semaphore, the aiolimiter leaky bucket *)
(*            and the two batch entry points fetch_many and                *)
(*            fetch_submissions_batch.                                     *)
(* Part II  - etp_tracker/step3.py and step4.py: the extraction step, the  *)
(*            accumulated extraction rows and the Fund Status rollup.      *)
(***************************************************************************)
EXTENDS Integers, Sequences, FiniteSets, TLC

(***************************************************************************)
(* Bounds of the model.                                                    *)
(***************************************************************************)
\* Longest input list and largest rate_limit of the batches of Spec and SpecUA.
MaxItems == 2
MaxRate == 2
\* Longest url list and largest rate_limit of the bursts of SpecRate.
BurstItems == 3
BurstRate == 3
\* Most filings in a prospectus base and most runs of the driver (SpecExtract).
MaxFilings == 2
MaxRuns == 2

(***************************************************************************)
(* Program constants.                                                      *)
(***************************************************************************)
\* async_client.py:57, refresh_max_age_hours: float = 6.0
RefreshMaxAgeHours == 6

\* config.py:4
USER_AGENT_DEFAULT == "REX-ETP-FilingTracker/1.0 (contact: set USER_AGENT)"
\* run_pipeline.py:115
PIPELINE_USER_AGENT == "REX-SEC-Filer/1.0 (contact: set USER_AGENT)"

(***************************************************************************)
(* Values.                                                                 *)
(***************************************************************************)
None == "None"
\* An operator-supplied identification string, and its absence (None or "").
OperatorUA == "ops@example.org"
NoUA == ""

\* Response bodies: a text json.loads accepts and one it rejects.
Bodies == {"json", "junk"}
IsJson(b) == b = "json"

\* Inputs of fetch_many.
Urls == {"u1", "u2"}
\* Inputs of fetch_submissions_batch: "7" and "07" name the same registrant,
\* "x" is not a number.
Ciks == {"7", "07", "9", "x"}

\* int(str(cik)) (async_client.py:196): -1 stands for the ValueError.
CikInt(c) ==
    CASE c = "7" -> 7
      [] c = "07" -> 7
      [] c = "9" -> 9
      [] OTHER -> -1
IsNumber(c) == CikInt(c) >= 0
Paddeds == {7, 9}

\* A cache file: present or not, its text, its age in hours (now - st_mtime),
\* and whether read_text succeeds on it.
NoEntry == [present |-> FALSE, text |-> "", age |-> 0, readable |-> FALSE]
Entry(text, age, readable) ==
    [present |-> TRUE, text |-> text, age |-> age, readable |-> readable]

Range(s) == {s[i] : i \in 1..Len(s)}

RECURSIVE Dedup(_)
\* The keys of a dict filled from the list s: each key once, in the order of
\* its first insertion.
Dedup(s) ==
    IF s = << >> THEN << >>
    ELSE LET d == Dedup(SubSeq(s, 1, Len(s) - 1))
             x == s[Len(s)]
         IN IF x \in Range(d) THEN d ELSE Append(d, x)

\* The index of the last element of s equal to k.
LastIndex(s, k) ==
    CHOOSE i \in 1..Len(s) : s[i] = k /\ \A j \in (i + 1)..Len(s) : s[j] # k

RECURSIVE SumSeq(_)
SumSeq(s) == IF s = << >> THEN 0 ELSE s[1] + SumSeq(Tail(s))

Max(a, b) == IF a >= b THEN a ELSE b

VARIABLES
    mode,       \* "many": fetch_many, "subs": fetch_submissions_batch
    entry,      \* "client": the client is built directly, "pipeline": by run_pipeline
    cfgUA,      \* the user agent the operator configured (NoUA when none)
    userAgent,  \* self.user_agent
    rateLimit,  \* self.rate_limit
    items,      \* the batch's input list (urls or ciks)
    webCache,   \* {cache_dir}/web/{sha256(url)}.txt, by url
    subCache,   \* {cache_dir}/submissions/{cik_padded}.json, by padded cik
    pcBatch,    \* "init", "collect", "returned", "raised"
    order,      \* the tasks dict: <<[key, task]>> in iteration order
    idx,        \* position of the collecting loop in order
    results,    \* the results dict
    tasks,      \* the asyncio tasks
    sem,        \* self.sem._value
    level,      \* self.limiter._level, in requests
    window,     \* requests started in each of the last rateLimit ticks
    sent,       \* the User-Agent headers of the requests issued so far
    writable,   \* whether write_text on a cache file succeeds
    observe     \* whether window is being recorded

clientVars == <<mode, entry, cfgUA, userAgent, rateLimit, items, webCache,
                subCache, pcBatch, order, idx, results, tasks, sem, level,
                window, sent, writable, observe>>

VARIABLES
    p2,         \* {trust}_2_Prospectus_Base.csv: the registrant's filings
    extracted,  \* {trust}_3_Extracted_Funds.csv: the accumulated extraction rows
    fundStatus, \* {trust}_4_Latest_Record.csv: the Fund Status table
    phase,      \* the step the driver calls next: "step3", "step4" ("idle": none)
    hist,       \* the last two completed runs: number, arguments, rows and table
    lastRun     \* the step 3 call of the run under way: its arguments and df_new

extractVars == <<p2, extracted, fundStatus, phase, hist, lastRun>>

VARIABLES
    ticker,     \* the call of _extract_ticker_for_series_from_texts under way
    nameHistory, \* {trust}_5_Name_History.csv: the name history table
    bulk,       \* the bulk load: its step, the archive, the matches of the scan
    driver      \* run_pipeline: its position, the trusts, the metrics

laterVars == <<ticker, nameHistory, bulk, driver>>

VARIABLES
    body,       \* the call of a body extractor: the document and the rows returned
    service     \* pipeline_service: the lock, the running flag, the calls, the run records

lastVars == <<body, service>>

vars == <<clientVars, extractVars, laterVars, lastVars>>

\* No body extractor is called.
NoBody == [pc |-> "idle"]

\* The web service has started no pipeline.
NoService == [pc |-> "idle"]

\* No body extractor is called and the web service is idle.
NoLast ==
    /\ body = NoBody
    /\ service = NoService

\* No ticker is being looked for.
NoCall == [pc |-> "idle", parens |-> << >>, labels |-> << >>, judged |-> << >>, ret |-> << >>]

\* No bulk load has run.
NoBulk == [pc |-> "idle", zip |-> << >>, matches |-> << >>, cached |-> 0, elapsed |-> 0]

\* run_pipeline is not running.
NoDriver == [pc |-> "idle"]

\* No ticker is being looked for, no name history is written, no bulk load
\* has run and run_pipeline is not running.
NoLater ==
    /\ ticker = NoCall
    /\ nameHistory = << >>
    /\ bulk = NoBulk
    /\ driver = NoDriver
    /\ NoLast

\* No step 3 call is under way.
NoRun == [since |-> "", until |-> "", forms |-> << >>, down |-> {}, new |-> << >>]

\* No extraction is under way.
NoExtraction ==
    /\ p2 = << >>
    /\ extracted = << >>
    /\ fundStatus = << >>
    /\ phase = "idle"
    /\ hist = << >>
    /\ lastRun = NoRun
    /\ NoLater

(***************************************************************************)
(* AsyncSECClient.__init__ and the driver's default.                       *)
(***************************************************************************)
\* run_pipeline.py:115  if not user_agent: user_agent = "REX-SEC-Filer/..."
RunPipelineUserAgent(ua) == IF ua = NoUA THEN PIPELINE_USER_AGENT ELSE ua

\* A constructor that keeps the user agent it is given, with no default.
ClientUserAgentAsGiven(ua) == ua

\* async_client.py:63  self.user_agent = user_agent or USER_AGENT_DEFAULT
ClientUserAgent(ua) == IF ua = NoUA THEN USER_AGENT_DEFAULT ELSE ua

\* The user agent the client is constructed with.
GivenUserAgent(e, ua) == IF e = "pipeline" THEN RunPipelineUserAgent(ua) ELSE ua

(***************************************************************************)
(* Cache helpers.                                                          *)
(***************************************************************************)
\* _read_web_cache: the content when the file exists and can be read.
ReadWebCache(c, url) ==
    IF c[url].present /\ c[url].readable THEN c[url].text ELSE None

\* A freshness test that still serves a file whose age equals the window.
ReadSubmissionsCacheInclusive(c, p) ==
    IF ~c[p].present THEN None
    ELSE IF c[p].age > RefreshMaxAgeHours THEN None
    ELSE IF ~c[p].readable THEN None
    ELSE c[p].text

\* _read_submissions_cache: None when the file is missing, when its age has
\* reached the freshness window, or when reading raises.
ReadSubmissionsCache(c, p) ==
    IF ~c[p].present THEN None
    ELSE IF c[p].age >= RefreshMaxAgeHours THEN None
    ELSE IF ~c[p].readable THEN None
    ELSE c[p].text

\* A write-back that is left out.
WriteCacheSkipped(c, k, content, ok) == c

\* _write_web_cache / _write_submissions_cache: write_text, any exception
\* swallowed (ok = FALSE leaves the file as it was).
WriteCache(c, k, content, ok) ==
    IF ok THEN [c EXCEPT ![k] = Entry(content, 0, TRUE)] ELSE c

(***************************************************************************)
(* Tasks.  pc: "sem" waiting for self.sem, "lim" waiting for self.limiter, *)
(* "get" request in flight, "sleep" in asyncio.sleep after a 429, "done"   *)
(* returned, "failed" raised.  depth is the number of _fetch_url frames on *)
(* the task's stack, each holding a permit and each having issued one      *)
(* request; net says the body came from the network.                       *)
(***************************************************************************)
NewTask(k, cached) ==
    IF cached # None
    THEN [key |-> k, pc |-> "done", depth |-> 0, body |-> cached, net |-> FALSE]
    ELSE [key |-> k, pc |-> "sem", depth |-> 0, body |-> None, net |-> TRUE]

Finished(t) == tasks[t].pc \in {"done", "failed"}

EmptyMap == [k \in {} |-> None]

\* d extended with d[k] = v.
Put(d, k, v) == [x \in DOMAIN d \cup {k} |-> IF x = k THEN v ELSE d[x]]

\* cik_padded = f"{int(str(cik)):010d}", the name of the cik's cache file.
PaddedOf(k) == CikInt(k)

(***************************************************************************)
(* fetch_many (async_client.py:161-175), up to its first suspension: one   *)
(* task per element of urls, the dict keeping per url the last task        *)
(* created.  Every task runs its first step, the cache read of fetch       *)
(* (async_client.py:152-157), before any response can arrive.              *)
(***************************************************************************)
StartFetchMany ==
    /\ pcBatch = "init"
    /\ mode = "many"
    /\ tasks' = [i \in 1..Len(items) |->
                    NewTask(items[i], ReadWebCache(webCache, items[i]))]
    /\ order' = LET d == Dedup(items)
                IN [i \in 1..Len(d) |-> [key |-> d[i], task |-> LastIndex(items, d[i])]]
    /\ results' = EmptyMap
    /\ idx' = 1
    /\ pcBatch' = IF items = << >> THEN "returned" ELSE "collect"
    /\ UNCHANGED <<laterVars, lastVars, extractVars, mode, entry, cfgUA, userAgent, rateLimit, items, webCache,
                   subCache, sem, level, window, sent, writable, observe>>

(***************************************************************************)
(* fetch_submissions_batch (async_client.py:181-226), up to its first      *)
(* suspension: the cik map (int(str(cik)) raises on a cik that is no       *)
(* number), the cache reads, and one task per cik that missed.             *)
(***************************************************************************)
RECURSIVE KeepSeq(_, _)
\* The elements of s that are in keep, in order.
KeepSeq(s, keep) ==
    IF s = << >> THEN << >>
    ELSE IF s[1] \in keep THEN <<s[1]>> \o KeepSeq(Tail(s), keep)
    ELSE KeepSeq(Tail(s), keep)

StartFetchSubmissionsBatch ==
    /\ pcBatch = "init"
    /\ mode = "subs"
    /\ IF \E i \in 1..Len(items) : ~IsNumber(items[i])
       THEN /\ pcBatch' = "raised"
            /\ UNCHANGED <<order, idx, results, tasks>>
       ELSE LET cikMap == Dedup(items)
                hit == {k \in Range(cikMap) :
                            ReadSubmissionsCache(subCache, PaddedOf(k)) # None}
                toFetch == KeepSeq(cikMap, Range(cikMap) \ hit)
            IN /\ results' = [k \in hit |-> ReadSubmissionsCache(subCache, PaddedOf(k))]
               /\ tasks' = [i \in 1..Len(toFetch) |-> NewTask(toFetch[i], None)]
               /\ order' = [i \in 1..Len(toFetch) |-> [key |-> toFetch[i], task |-> i]]
               /\ idx' = 1
               /\ pcBatch' = IF toFetch = << >> THEN "returned" ELSE "collect"
    /\ UNCHANGED <<laterVars, lastVars, extractVars, mode, entry, cfgUA, userAgent, rateLimit, items, webCache,
                   subCache, sem, level, window, sent, writable, observe>>

(***************************************************************************)
(* _fetch_url (async_client.py:131-146).                                   *)
(***************************************************************************)
\* AsyncLimiter.has_capacity: level + 1 <= max_rate
HasCapacity == level + 1 <= rateLimit

\* The request goes out: session.get(url, headers={"User-Agent": ...}).
Issue(t) ==
    /\ level' = level + 1
    /\ window' = IF observe THEN [window EXCEPT ![Len(window)] = @ + 1] ELSE window
    /\ sent' = sent \cup {userAgent}

\* async with self.sem, and async with self.limiter when it has capacity.
AcquireSem(t) ==
    /\ tasks[t].pc = "sem"
    /\ sem > 0
    /\ sem' = sem - 1
    /\ IF HasCapacity
       THEN /\ tasks' = [tasks EXCEPT ![t].pc = "get", ![t].depth = @ + 1]
            /\ Issue(t)
       ELSE /\ tasks' = [tasks EXCEPT ![t].pc = "lim", ![t].depth = @ + 1]
            /\ UNCHANGED <<level, window, sent>>
    /\ UNCHANGED <<laterVars, lastVars, extractVars, mode, entry, cfgUA, userAgent, rateLimit, items, webCache,
                   subCache, pcBatch, order, idx, results, writable, observe>>

\* async with self.limiter, after waiting for capacity.
AcquireLimiter(t) ==
    /\ tasks[t].pc = "lim"
    /\ HasCapacity
    /\ tasks' = [tasks EXCEPT ![t].pc = "get"]
    /\ Issue(t)
    /\ UNCHANGED <<laterVars, lastVars, extractVars, mode, entry, cfgUA, userAgent, rateLimit, items, webCache,
                   subCache, pcBatch, order, idx, results, sem, writable, observe>>

\* A release that gives back one permit more than the task holds.
ReleaseOneMore(t) == sem + tasks[t].depth + 1

\* The permits a task gives back when its _fetch_url frames unwind.
Release(t) == sem + tasks[t].depth

\* resp.status == 200: the frames unwind; fetch writes the web cache before
\* it returns (async_client.py:157-159).
RespondOk(t) ==
    /\ tasks[t].pc = "get"
    /\ \E b \in Bodies :
        /\ tasks' = [tasks EXCEPT ![t] = [@ EXCEPT !.pc = "done", !.depth = 0, !.body = b]]
        /\ webCache' = IF mode = "many"
                       THEN WriteCache(webCache, tasks[t].key, b, writable)
                       ELSE webCache
    /\ sem' = Release(t)
    /\ UNCHANGED <<laterVars, lastVars, extractVars, mode, entry, cfgUA, userAgent, rateLimit, items, subCache,
                   pcBatch, order, idx, results, level, window, sent, writable,
                   observe>>

\* resp.status == 429 with a Retry-After that int() accepts: the task sleeps
\* inside both context managers, its permits kept.
Respond429(t) ==
    /\ tasks[t].pc = "get"
    /\ tasks' = [tasks EXCEPT ![t].pc = "sleep"]
    /\ UNCHANGED <<laterVars, lastVars, extractVars, mode, entry, cfgUA, userAgent, rateLimit, items, webCache,
                   subCache, pcBatch, order, idx, results, sem, level, window,
                   sent, writable, observe>>

\* asyncio.sleep returns: return await self._fetch_url(session, url)
Wake(t) ==
    /\ tasks[t].pc = "sleep"
    /\ tasks' = [tasks EXCEPT ![t].pc = "sem"]
    /\ UNCHANGED <<laterVars, lastVars, extractVars, mode, entry, cfgUA, userAgent, rateLimit, items, webCache,
                   subCache, pcBatch, order, idx, results, sem, level, window,
                   sent, writable, observe>>

\* The request raises: a timeout, a connection error, raise_for_status on
\* another status, or int() on a Retry-After that is no number.
RespondError(t) ==
    /\ tasks[t].pc = "get"
    /\ tasks' = [tasks EXCEPT ![t] = [@ EXCEPT !.pc = "failed", !.depth = 0]]
    /\ sem' = Release(t)
    /\ UNCHANGED <<laterVars, lastVars, extractVars, mode, entry, cfgUA, userAgent, rateLimit, items, webCache,
                   subCache, pcBatch, order, idx, results, level, window, sent,
                   writable, observe>>

(***************************************************************************)
(* Time: one tick is 1/rate_limit second, in which the leaky bucket of     *)
(* AsyncLimiter(rate_limit, 1.0) leaks one request.                        *)
(***************************************************************************)
Tick ==
    /\ pcBatch = "collect"
    /\ level' = Max(level - 1, 0)
    /\ window' = IF observe THEN Tail(window) \o <<0>> ELSE window
    /\ UNCHANGED <<laterVars, lastVars, extractVars, mode, entry, cfgUA, userAgent, rateLimit, items, webCache,
                   subCache, pcBatch, order, idx, results, tasks, sem, sent,
                   writable, observe>>

(***************************************************************************)
(* The collecting loops (async_client.py:169-174 and 227-237).             *)
(***************************************************************************)
\* A collecting loop without the try/except: a task's exception leaves
\* fetch_many.
CollectManyNoCatch ==
    /\ pcBatch = "collect"
    /\ mode = "many"
    /\ LET k == order[idx].key
           t == order[idx].task
       IN /\ Finished(t)
          /\ IF tasks[t].pc = "done"
             THEN /\ results' = Put(results, k, tasks[t].body)
                  /\ idx' = idx + 1
                  /\ pcBatch' = IF idx = Len(order) THEN "returned" ELSE "collect"
             ELSE /\ pcBatch' = "raised"
                  /\ UNCHANGED <<results, idx>>
    /\ UNCHANGED <<laterVars, lastVars, extractVars, mode, entry, cfgUA, userAgent, rateLimit, items, webCache,
                   subCache, order, tasks, sem, level, window, sent, writable,
                   observe>>

\* fetch_many: results[url] = await task, None when the task raised.
CollectMany ==
    /\ pcBatch = "collect"
    /\ mode = "many"
    /\ LET k == order[idx].key
           t == order[idx].task
       IN /\ Finished(t)
          /\ results' = Put(results, k,
                            IF tasks[t].pc = "done" THEN tasks[t].body ELSE None)
    /\ idx' = idx + 1
    /\ pcBatch' = IF idx = Len(order) THEN "returned" ELSE "collect"
    /\ UNCHANGED <<laterVars, lastVars, extractVars, mode, entry, cfgUA, userAgent, rateLimit, items, webCache,
                   subCache, order, tasks, sem, level, window, sent, writable,
                   observe>>

\* fetch_submissions_batch: the content is validated by json.loads, written
\* to the submissions cache and recorded; any exception records None.
CollectSubmissions ==
    /\ pcBatch = "collect"
    /\ mode = "subs"
    /\ LET k == order[idx].key
           t == order[idx].task
       IN /\ Finished(t)
          /\ IF tasks[t].pc = "done" /\ IsJson(tasks[t].body)
             THEN /\ subCache' = WriteCache(subCache, PaddedOf(k), tasks[t].body, writable)
                  /\ results' = Put(results, k, tasks[t].body)
             ELSE /\ results' = Put(results, k, None)
                  /\ UNCHANGED subCache
    /\ idx' = idx + 1
    /\ pcBatch' = IF idx = Len(order) THEN "returned" ELSE "collect"
    /\ UNCHANGED <<laterVars, lastVars, extractVars, mode, entry, cfgUA, userAgent, rateLimit, items, webCache,
                   order, tasks, sem, level, window, sent, writable, observe>>

TaskNext ==
    \E t \in DOMAIN tasks :
        \/ AcquireSem(t)
        \/ AcquireLimiter(t)
        \/ RespondOk(t)
        \/ Respond429(t)
        \/ Wake(t)
        \/ RespondError(t)

\* asyncio.run(client.fetch_many(urls))
FetchManyNext ==
    \/ StartFetchMany
    \/ TaskNext
    \/ Tick
    \/ CollectMany

\* Either batch entry point.
ClientNext ==
    \/ StartFetchMany
    \/ StartFetchSubmissionsBatch
    \/ TaskNext
    \/ Tick
    \/ CollectMany
    \/ CollectSubmissions

(***************************************************************************)
(* Initial states: a client just constructed, a cache directory in any     *)
(* state, a batch about to be called.                                      *)
(***************************************************************************)
SeqsUpTo(S, n) == UNION {[1..m -> S] : m \in 0..n}

\* The cache files a run may find: none, one 5, 6 or 7 hours old, one that
\* cannot be read.
InitEntries ==
    {NoEntry, Entry("json", 5, TRUE), Entry("json", 6, TRUE),
     Entry("json", 7, TRUE), Entry("json", 5, FALSE)}

\* The cache directories a run may find: any of InitEntries for key k, any
\* of Others for the other keys.
InitCaches(Keys, k, Others, used) ==
    IF used
    THEN {[x \in Keys |-> IF x = k THEN e ELSE o] : e \in InitEntries, o \in Others}
    ELSE {[x \in Keys |-> NoEntry]}

\* What is the same in every initial state: nothing has run yet.
Fresh ==
    /\ userAgent = ClientUserAgent(GivenUserAgent(entry, cfgUA))
    /\ pcBatch = "init"
    /\ order = << >>
    /\ idx = 1
    /\ results = EmptyMap
    /\ tasks = << >>
    /\ sem = rateLimit
    /\ level = 0
    /\ window = [i \in 1..rateLimit |-> 0]
    /\ sent = {}
    /\ NoExtraction

\* Either batch, over any cache directory, by a client built with the
\* operator's user agent.
ClientInit ==
    /\ mode \in {"many", "subs"}
    /\ entry = "client"
    /\ cfgUA = OperatorUA
    /\ rateLimit \in 1..MaxRate
    /\ items \in SeqsUpTo(IF mode = "many" THEN Urls ELSE Ciks, MaxItems)
    /\ webCache \in InitCaches(Urls, "u1", {NoEntry}, mode = "many")
    /\ subCache \in InitCaches(Paddeds, 7, {NoEntry, Entry("junk", 7, TRUE)}, mode = "subs")
    /\ writable \in BOOLEAN
    /\ observe = FALSE
    /\ Fresh

\* Either batch over an empty cache directory, by a client built directly or
\* by run_pipeline, with or without a configured user agent.
UAInit ==
    /\ mode \in {"many", "subs"}
    /\ entry \in {"client", "pipeline"}
    /\ cfgUA \in {NoUA, OperatorUA}
    /\ entry = "pipeline" => mode = "subs"
    /\ rateLimit \in 1..MaxRate
    /\ items \in SeqsUpTo(IF mode = "many" THEN Urls ELSE Ciks, MaxItems)
    /\ webCache = [u \in Urls |-> NoEntry]
    /\ subCache = [p \in Paddeds |-> NoEntry]
    /\ writable = TRUE
    /\ observe = FALSE
    /\ Fresh

\* fetch_many over an empty cache directory, the requests of the last second
\* recorded.
RateInit ==
    /\ mode = "many"
    /\ entry = "client"
    /\ cfgUA = OperatorUA
    /\ rateLimit \in 1..BurstRate
    /\ items \in SeqsUpTo(Urls, BurstItems)
    /\ webCache = [u \in Urls |-> NoEntry]
    /\ subCache = [p \in Paddeds |-> NoEntry]
    /\ writable = TRUE
    /\ observe = TRUE
    /\ Fresh

Spec == ClientInit /\ [][ClientNext]_vars
SpecUA == UAInit /\ [][ClientNext]_vars
SpecRate == RateInit /\ [][FetchManyNext]_vars

(***************************************************************************)
(* The fetch client's properties.                                          *)
(***************************************************************************)
\* The keys the collecting loop has already recorded.
Collected == {order[i].key : i \in 1..(IF pcBatch = "returned" THEN Len(order) ELSE idx - 1)}

\* The task whose result the batch reports for key k.
TaskOf(k) == order[CHOOSE i \in DOMAIN order : order[i].key = k].task

\* The permits held by the tasks.
Held == SumSeq([t \in DOMAIN tasks |-> tasks[t].depth])

\* C1: one fetch call requests its url at most twice (one retry after a 429,
\* a second 429 being an error).  Each _fetch_url frame on a task's stack has
\* issued one request, so the claim bounds the stack's depth by 2.
C1_AtMostTwoRequests == \A t \in DOMAIN tasks : tasks[t].depth <= 2

\* C2: no state is reachable in which every unfinished task of a batch waits
\* for a semaphore permit that no task can give back.
AllWaitForPermit ==
    /\ \E t \in DOMAIN tasks : ~Finished(t)
    /\ \A t \in DOMAIN tasks : ~Finished(t) => tasks[t].pc = "sem"
    /\ sem = 0
C2_NoPermitDeadlock == ~AllWaitForPermit

\* C3: fetch_many never raises because a url failed; what it returns has
\* exactly one entry per distinct input url, None for a url whose fetch
\* raised and the fetched or cached content otherwise; and a task that
\* raised holds no permit another url's task could be waiting for.
C3_FetchManyReportsEveryUrl ==
    mode = "many" =>
        /\ pcBatch # "raised"
        /\ pcBatch = "returned" => DOMAIN results = Range(items)
        /\ DOMAIN results = Collected
        /\ \A k \in DOMAIN results :
              results[k] = IF tasks[TaskOf(k)].pc = "failed" THEN None
                           ELSE tasks[TaskOf(k)].body
        /\ \A t \in DOMAIN tasks : tasks[t].pc = "failed" => tasks[t].depth = 0
        /\ sem + Held = rateLimit

\* C3's case: a returned batch in which one url failed and another did not.
C3_Witness ==
    /\ mode = "many"
    /\ pcBatch = "returned"
    /\ \E k1, k2 \in DOMAIN results :
          /\ results[k1] = None
          /\ tasks[TaskOf(k1)].pc = "failed"
          /\ results[k2] \in Bodies
          /\ tasks[TaskOf(k2)].net

\* C4: fetch_submissions_batch never raises, whatever the identifiers, and
\* what it returns has an entry for every input identifier.
C4_SubmissionsBatchReportsEveryCik ==
    mode = "subs" =>
        /\ pcBatch # "raised"
        /\ pcBatch = "returned" => DOMAIN results = Range(items)

\* C5: the requests started within any window of one second (rateLimit
\* consecutive ticks) never exceed rate_limit.
C5_RateCeiling == SumSeq(window) <= rateLimit

\* The state fetch_submissions_batch is in right after its cache reads,
\* before any write-back.
AfterCacheReads == mode = "subs" /\ pcBatch \in {"collect", "returned"} /\ idx = 1
HasTask(k) == \E i \in DOMAIN order : order[i].key = k

\* C6, as amended: a read of the per-registrant index cache is a hit,
\* returning the cached text, exactly when the file is present, readable and
\* strictly younger than the freshness window; otherwise (missing, age equal
\* to or beyond the window, unreadable) it is a miss and the registrant is
\* fetched.  With the 6-hour window, 7 hours is a miss and 5 hours a hit.
C6_FreshnessWindow ==
    AfterCacheReads =>
        \A k \in Range(items) :
            LET e == subCache[PaddedOf(k)]
            IN IF e.present /\ e.readable /\ e.age < RefreshMaxAgeHours
               THEN k \in DOMAIN results /\ results[k] = e.text /\ ~HasTask(k)
               ELSE k \notin DOMAIN results /\ HasTask(k)

\* C6's case: one batch that read a 5-hour-old file (a hit) and a 7-hour-old
\* one (a miss).
C6_Witness ==
    /\ AfterCacheReads
    /\ \E k1, k2 \in Range(items) :
          /\ subCache[PaddedOf(k1)].present /\ subCache[PaddedOf(k1)].age = 5
          /\ k1 \in DOMAIN results
          /\ subCache[PaddedOf(k2)].present /\ subCache[PaddedOf(k2)].age = 7
          /\ HasTask(k2)

\* C6, as claimed: every file that is present (and can be read) and is not
\* older than the window is a hit.
C6_NotOlderIsHit ==
    AfterCacheReads =>
        \A k \in Range(items) :
            LET e == subCache[PaddedOf(k)]
            IN (e.present /\ e.readable /\ e.age <= RefreshMaxAgeHours)
                  => k \in DOMAIN results

\* The tasks that obtained their content from the network.
FetchedOk(t) == tasks[t].pc = "done" /\ tasks[t].net

\* The content of fetch (mode "many") is returned when its task is done; the
\* content of fetch_submissions_batch when the loop has recorded it.
CachedWhenReturned ==
    /\ mode = "many" =>
          \A t \in DOMAIN tasks :
              FetchedOk(t) =>
                  /\ ReadWebCache(webCache, tasks[t].key) # None
                  /\ (\A u \in DOMAIN tasks : FetchedOk(u) /\ tasks[u].key = tasks[t].key
                                               => tasks[u].body = tasks[t].body)
                     => ReadWebCache(webCache, tasks[t].key) = tasks[t].body
    /\ mode = "subs" =>
          \A k \in Collected :
              (FetchedOk(TaskOf(k)) /\ results[k] # None) =>
                  /\ ReadSubmissionsCache(subCache, PaddedOf(k)) # None
                  /\ (\A j \in Collected : PaddedOf(j) = PaddedOf(k) /\ results[j] # None
                                           => results[j] = results[k])
                     => ReadSubmissionsCache(subCache, PaddedOf(k)) = results[k]

BuiltInUserAgent == IF entry = "pipeline" THEN PIPELINE_USER_AGENT ELSE USER_AGENT_DEFAULT

NaN == "<NaN>"
NaT == 0

\* pd.read_csv(path, dtype=str): the cell texts pandas takes for missing.
NaValues == {"", "nan", "NaN", "NA", "N/A", "NULL", "null", "None"}
ReadCell(x) == IF x \in NaValues THEN NaN ELSE x
ReadCsv(file) == [i \in 1..Len(file) |-> [c \in DOMAIN file[i] |-> ReadCell(file[i][c])]]

\* DataFrame.to_csv: NaN is written as an empty cell.
WriteCell(x) == IF x = NaN THEN "" ELSE x

\* Series.fillna(""), str(x) and the truth value of a cell.
Fillna(x) == IF x = NaN THEN "" ELSE x
Str(x) == IF x = NaN THEN "nan" ELSE x
Truthy(x) == x # ""

\* utils.safe_str: NaN is no str.
safe_str(x) == IF x = NaN THEN "" ELSE x

\* The table tab where it is defined, the text itself elsewhere.
Lookup(tab, s) == IF s \in DOMAIN tab THEN tab[s] ELSE s

\* str.upper, str.casefold and str.title on the texts of the model.
Upper(s) ==
    Lookup(("485bpos" :> "485BPOS") @@ ("aaa" :> "AAA") @@ ("etf" :> "ETF")
           @@ ("485" :> "485") @@ ("497" :> "497") @@ ("485apos" :> "485APOS")
           @@ ("Ticker" :> "TICKER") @@ ("n/a" :> "N/A"), s)
Casefold(s) ==
    Lookup(("Alpha Fund" :> "alpha fund") @@ ("ALPHA FUND" :> "alpha fund")
           @@ ("Beta Fund" :> "beta fund"), s)
titlecase_safe(s) ==
    Lookup(("ALPHA FUND" :> "Alpha Fund") @@ ("alpha fund" :> "Alpha Fund")
           @@ ("beta fund" :> "Beta Fund"), s)

\* re.sub(r"\s+", " ", s).strip() (step3.py:20, utils.py:28-29).
normalize_spacing(s) == Lookup(("Beta  Fund" :> "Beta Fund") @@ (" " :> ""), s)

\* utils.clean_fund_name_for_rollup: trademark signs and parentheses go,
\* spacing is normalised.
clean_fund_name_for_rollup(raw) ==
    IF raw = NaN THEN ""
    ELSE normalize_spacing(Lookup(("Alpha Fund (AAA)" :> "Alpha Fund AAA"), raw))

\* Every text counted as having the prefix.
StartsWithAnything(s, prefix) == TRUE

\* str.startswith(prefix) for the form types and prefixes of the model.
StartsWith(s, prefix) ==
    LET Prefixes == ("485BPOS" :> {"485", "485B"}) @@ ("485APOS" :> {"485", "485A"})
                    @@ ("497" :> {"497"}) @@ ("497K" :> {"497"})
                    @@ ("EFFECT" :> {})
    IN  prefix = "" \/ s = prefix
        \/ (s \in DOMAIN Prefixes /\ prefix \in Prefixes[s])

(***************************************************************************)
(* Dates.  The filings of the model are of 2024; a timestamp is the day of *)
(* that year, NaT for a text pd.to_datetime(errors="coerce") cannot parse. *)
(***************************************************************************)
MonthDays == <<31, 29, 31, 30, 31, 30, 31, 31, 30, 31, 30, 31>>
YearDays == SumSeq(MonthDays)

RECURSIVE MonthOf(_, _)
\* The month of day n of the year, counting from month m.
MonthOf(n, m) == IF n <= MonthDays[m] THEN m ELSE MonthOf(n - MonthDays[m], m + 1)

RECURSIVE DayOf(_, _)
DayOf(n, m) == IF n <= MonthDays[m] THEN n ELSE DayOf(n - MonthDays[m], m + 1)

Pad2(k) == IF k < 10 THEN "0" \o ToString(k) ELSE ToString(k)

\* Timestamp.strftime("%Y-%m-%d")
Strftime(n) == "2024-" \o Pad2(MonthOf(n, 1)) \o "-" \o Pad2(DayOf(n, 1))

\* The days of the dates that stand in the filings and documents of the
\* model: January 10, February 20 and 21, March 5 and 20, April 1.
Days == {10, 51, 52, 65, 80, 92}

\* pd.to_datetime(text, errors="coerce")
Timestamps == [s \in {Strftime(n) : n \in Days} |-> CHOOSE n \in Days : Strftime(n) = s]
ToDatetime(s) == IF s \in DOMAIN Timestamps THEN Timestamps[s] ELSE NaT

\* utils.date_plus_days; the dates of the model do not go beyond 2024.
date_plus_days(iso, days) ==
    LET dt == ToDatetime(iso)
    IN  IF dt = NaT \/ dt + days > YearDays THEN "" ELSE Strftime(dt + days)

(***************************************************************************)
(* The archive: the registrant's filings and the documents behind their    *)
(* links.  A document is named by a text; the tables give what the parsers *)
(* and regular expressions of step 3 find in it.                           *)
(***************************************************************************)
Step3Cols ==
    {"Series ID", "Series Name", "Class-Contract ID", "Class Contract Name",
     "Class Symbol", "Form", "Filing Date", "Accession Number", "Primary Link",
     "Full Submission TXT", "Registrant", "CIK", "Extracted From",
     "Effective Date", "Delaying Amendment"}

\* A row of the prospectus base.
Filing(form, date, acc, prim, txt) ==
    ("Form" :> form) @@ ("Filing Date" :> date) @@ ("CIK" :> "7")
    @@ ("Registrant" :> "Trust A") @@ ("Accession Number" :> acc)
    @@ ("Primary Link" :> prim) @@ ("Full Submission TXT" :> txt)

Filings ==
    {Filing("485BPOS", "2024-03-05", "A1", "a1.htm", "a1.txt"),
     Filing("485APOS", "2024-01-10", "A2", "a2.pdf", "a2.txt"),
     Filing("497", "2024-02-20", "A3", "", "a3.txt"),
     Filing("EFFECT", "2024-03-05", "A4", "a4.htm", "a4.txt")}

\* What client.fetch_text / fetch_bytes returns for a link when it succeeds.
Archive ==
    ("a1.txt" :> "T1") @@ ("a1.htm" :> "H1.html") @@ ("a2.txt" :> "T2")
    @@ ("a2.pdf" :> "P2.pdf") @@ ("a3.txt" :> "T3") @@ ("a4.txt" :> "T4")
    @@ ("a4.htm" :> "H4.html")

\* A series/class declaration of a filing's tagged-text block.
Class(sid, sname, cid, cname, sym) ==
    ("Series ID" :> sid) @@ ("Series Name" :> sname)
    @@ ("Class-Contract ID" :> cid) @@ ("Class Contract Name" :> cname)
    @@ ("Class Symbol" :> sym) @@ ("Extracted From" :> "SGML-TXT")

\* sgml.parse_sgml_series_classes
parse_sgml_series_classes(txt) ==
    CASE txt = "T1" -> <<Class("S1", "Alpha Fund", "C1", "Alpha Fund", "")>>
      [] txt = "T2" -> <<Class("S1", "ALPHA FUND", "C1", "Alpha Fund", ""),
                         Class("S1", "Alpha Fund", "C1", "Alpha Fund", ""),
                         Class("S2", "Beta Fund", "C2", "Beta  Fund", "BBB")>>
      [] txt = "T3" -> <<Class("S1", "Alpha Fund", "", "", "")>>
      [] OTHER -> << >>

\* body_extractors.iter_txt_documents: <<doctype, fname, body_html>>
iter_txt_documents(txt) ==
    CASE txt = "T1" -> <<<<"EX-99", "ex99.htm", "X1.html">>>>
      [] txt = "T2" -> <<<<"485APOS", "a2e.htm", "E2.html">>>>
      [] txt = "T3" -> <<<<"497", "a3e.htm", "E3.html">>>>
      [] OTHER -> << >>

\* body_extractors.extract_from_html_string: the rows of the ticker tables
\* and the plain text of an HTML document.
HtmlRow(cname, sym) ==
    ("Series ID" :> "") @@ ("Series Name" :> "") @@ ("Class-Contract ID" :> "")
    @@ ("Class Contract Name" :> cname) @@ ("Class Symbol" :> sym)
    @@ ("Extracted From" :> "PRIMARY-HTML")
extract_from_html_string(html) ==
    CASE html = "H1.html" -> <<<<HtmlRow("Alpha Fund", "AAA")>>, "H1">>
      [] html = "E2.html" -> <<<< >>, "E2">>
      [] html = "X1.html" -> <<<< >>, "X1">>
      [] html = "E3.html" -> <<<< >>, "E3">>
      [] OTHER -> <<<< >>, "">>

\* pdf_extract_text(io.BytesIO(data))
pdf_extract_text(data) == IF data = "P2.pdf" THEN "P2" ELSE ""

\* body_extractors.py:101-110: the rows of the columnar lines of a PDF text.
PdfRow(cname, sym) ==
    ("Series ID" :> "") @@ ("Series Name" :> "") @@ ("Class-Contract ID" :> "")
    @@ ("Class Contract Name" :> cname) @@ ("Class Symbol" :> sym)
    @@ ("Extracted From" :> "PRIMARY-PDF")
PdfRows(text) == IF text = "P2" THEN <<PdfRow("Beta Fund", "BBB")>> ELSE << >>

\* step3._extract_effectiveness_from_hdr: the EFFECTIVENESS DATE of the header.
_extract_effectiveness_from_hdr(txt) == IF txt = "T3" THEN "2024-02-21" ELSE ""

\* step3._find_effective_date_in_text: <<date, delaying>>
_find_effective_date_in_text(txt) ==
    CASE txt = "H1" -> <<"2024-04-01", FALSE>>
      [] txt = "T2" -> <<"", TRUE>>
      [] txt = "P2" -> <<"2024-03-20", FALSE>>
      [] txt = "E3" -> <<"", TRUE>>
      [] OTHER -> <<"", FALSE>>

\* The token rx_paren finds after the name in a text ("" when it finds none),
\* step3.py:22-24.
ParenToken(text, name) ==
    IF text = "H1" /\ Casefold(name) = "alpha fund" THEN "aaa" ELSE ""

\* The tokens label_rx finds in the windows around the occurrences of the
\* name in a text, in the order of the occurrences, step3.py:31-36.
LabelTokens(text, name) ==
    CASE text = "T1" /\ Casefold(name) = "alpha fund" -> <<"ETF">>
      [] text = "E2" /\ Casefold(name) = "beta fund" -> <<"123", "BETA">>
      [] OTHER -> << >>

\* utils.is_html_doc and utils.is_pdf_doc
is_html_doc(url) == url \in {"a1.htm", "a4.htm"}
is_pdf_doc(url) == url \in {"a2.pdf"}

(***************************************************************************)
(* step3.py: ticker recovery.                                              *)
(***************************************************************************)
_TICKER_STOPWORDS == {"THE", "AND", "FOR", "WITH", "ETF", "FUND", "RISK", "USD", "MEMBER"}

\* str.strip on the tokens of the model.
Strip(s) ==
    Lookup((" " :> "") @@ (" SCCO " :> "SCCO") @@ (" 485apos" :> "485apos")
           @@ (" aaa " :> "aaa"), s)

\* The characters of the tokens of the model.
Chars ==
    ("" :> << >>) @@ ("A" :> <<"A">>) @@ ("1A" :> <<"1", "A">>)
    @@ ("123" :> <<"1", "2", "3">>) @@ ("AAA" :> <<"A", "A", "A">>)
    @@ ("BBB" :> <<"B", "B", "B">>) @@ ("ETF" :> <<"E", "T", "F">>)
    @@ ("BETA" :> <<"B", "E", "T", "A">>) @@ ("SCCO" :> <<"S", "C", "C", "O">>)
    @@ ("FUND" :> <<"F", "U", "N", "D">>)
    @@ ("MEMBER" :> <<"M", "E", "M", "B", "E", "R">>)
    @@ ("ABCDEF" :> <<"A", "B", "C", "D", "E", "F">>)
    @@ ("123456" :> <<"1", "2", "3", "4", "5", "6">>)
    @@ ("ABCDEFG" :> <<"A", "B", "C", "D", "E", "F", "G">>)
    @@ ("USD" :> <<"U", "S", "D">>) @@ ("N/A" :> <<"N", "/", "A">>)
    @@ ("TICKER" :> <<"T", "I", "C", "K", "E", "R">>)

\* str.isalpha on a character.
IsAlpha(c) ==
    c \in {"A", "B", "C", "D", "E", "F", "G", "I", "K", "M", "N", "O", "R", "S", "T", "U"}

\* any(c.isalpha() for c in t)
HasAlpha(t) == \E i \in 1..Len(Chars[t]) : IsAlpha(Chars[t][i])

\* The stopwords left out of the test.
ValidTickerNoStopwords(tok) ==
    LET t == Upper(Strip(tok))
    IN  /\ 1 <= Len(t) /\ Len(t) <= 6
        /\ HasAlpha(t)

_valid_ticker(tok) ==
    LET t == Upper(Strip(tok))
    IN  /\ 1 <= Len(t) /\ Len(t) <= 6
        /\ t \notin _TICKER_STOPWORDS
        /\ HasAlpha(t)

\* The first element s[i] of s for which ok[i] holds, "" when there is none.
FirstThat(s, ok) ==
    IF \E i \in 1..Len(s) : ok[i]
    THEN s[CHOOSE i \in 1..Len(s) : ok[i] /\ \A j \in 1..(i - 1) : ~ok[j]]
    ELSE ""

\* The validated token of the parenthetical after the name in a text, and of
\* the first valid labelled token near the name; "" when there is none.
ParenTicker(text, s_norm) ==
    IF ParenToken(text, s_norm) # "" /\ _valid_ticker(Upper(ParenToken(text, s_norm)))
    THEN Upper(ParenToken(text, s_norm)) ELSE ""
LabelTicker(text, s_norm) ==
    Upper(FirstThat(LabelTokens(text, s_norm),
                    [i \in 1..Len(LabelTokens(text, s_norm)) |->
                        _valid_ticker(Upper(LabelTokens(text, s_norm)[i]))]))

\* <<ticker, strategy>>: the parenthetical of the first text that has a valid
\* one, else the labelled token of the first text that has a valid one.
FirstTicker(parens, labels) ==
    IF \E i \in 1..Len(parens) : parens[i] # ""
    THEN <<FirstThat(parens, [i \in 1..Len(parens) |-> parens[i] # ""]), "TITLE-PAREN">>
    ELSE IF \E i \in 1..Len(labels) : labels[i] # ""
    THEN <<FirstThat(labels, [i \in 1..Len(labels) |-> labels[i] # ""]), "LABEL-WINDOW">>
    ELSE <<"", "">>

_extract_ticker_for_series_from_texts(series_name, texts) ==
    IF series_name = "" THEN <<"", "">>
    ELSE FirstTicker(
             [i \in 1..Len(texts) |-> ParenTicker(texts[i], normalize_spacing(series_name))],
             [i \in 1..Len(texts) |-> LabelTicker(texts[i], normalize_spacing(series_name))])

(***************************************************************************)
(* step3.py:103-191, one filing of the prospectus base.  down is the set   *)
(* of links whose fetch raises in this run.                                *)
(***************************************************************************)
\* client.fetch_text(url) under try/except (step3.py:114-118,
\* body_extractors.py:87-90 and 96-100): "" when the fetch raises.
FetchOrEmpty(url, down) ==
    IF url = "" \/ url \in down \/ url \notin DOMAIN Archive THEN "" ELSE Archive[url]

\* One more plain text: it joins the texts searched for tickers and, while
\* no effective date is known, is searched for one (step3.py:136-141,
\* 146-151, 156-161).
Absorb(st, plain) ==
    IF plain = "" THEN st
    ELSE LET found == _find_effective_date_in_text(plain)
         IN  [texts |-> Append(st.texts, plain),
              eff |-> IF st.eff = "" /\ found[1] # "" THEN found[1] ELSE st.eff,
              delaying |-> IF st.eff = "" THEN st.delaying \/ found[2] ELSE st.delaying]

RECURSIVE AbsorbDocuments(_, _)
\* step3.py:133-141: the prospectus documents embedded in the submission.
AbsorbDocuments(st, docs) ==
    IF docs = << >> THEN st
    ELSE LET doctype == Upper(docs[1][1])
             isProspectus == \/ StartsWith(doctype, "485A")
                             \/ StartsWith(doctype, "485B")
                             \/ StartsWith(doctype, "497")
             next == IF isProspectus
                     THEN Absorb(st, extract_from_html_string(docs[1][3])[2])
                     ELSE st
         IN  AbsorbDocuments(next, Tail(docs))

\* body_extractors.extract_from_primary_html and extract_from_primary_pdf:
\* <<rows, plain text>>.
extract_from_primary_html(url, down) ==
    IF FetchOrEmpty(url, down) = "" THEN <<<< >>, "">>
    ELSE extract_from_html_string(FetchOrEmpty(url, down))
extract_from_primary_pdf(url, down) ==
    IF FetchOrEmpty(url, down) = "" THEN <<<< >>, "">>
    ELSE <<PdfRows(pdf_extract_text(FetchOrEmpty(url, down))),
           pdf_extract_text(FetchOrEmpty(url, down))>>

\* step3.py:120-131: what the submission text gives by itself.
TextsOfSubmission(txt_text) ==
    IF txt_text = "" THEN [texts |-> << >>, eff |-> "", delaying |-> FALSE]
    ELSE [texts |-> <<txt_text>>,
          eff |-> IF _extract_effectiveness_from_hdr(txt_text) = ""
                     /\ _find_effective_date_in_text(txt_text)[1] # ""
                  THEN _find_effective_date_in_text(txt_text)[1]
                  ELSE _extract_effectiveness_from_hdr(txt_text),
          delaying |-> _find_effective_date_in_text(txt_text)[2]]

\* step3.py:143-151 and 153-161: the primary document, HTML or PDF.
AbsorbHtml(st, prim_url, down) ==
    IF is_html_doc(prim_url) THEN Absorb(st, extract_from_primary_html(prim_url, down)[2])
    ELSE st
AbsorbPdf(st, prim_url, down) ==
    IF is_pdf_doc(prim_url) THEN Absorb(st, extract_from_primary_pdf(prim_url, down)[2])
    ELSE st

\* The effective date, the delaying flag and the plain texts of a filing
\* whose submission text is txt_text.
FilingTexts(txt_text, prim_url, down) ==
    AbsorbPdf(AbsorbHtml(AbsorbDocuments(TextsOfSubmission(txt_text),
                                         iter_txt_documents(txt_text)),
                         prim_url, down),
              prim_url, down)

\* step3.py:165-172: a tagged-text row, with the ticker found for it.
Enrich(base, found) ==
    IF found[1] # ""
    THEN ("Class Symbol" :> found[1])
         @@ ("Extracted From" :>
                ((IF "Extracted From" \in DOMAIN base /\ base["Extracted From"] # ""
                  THEN base["Extracted From"] ELSE "SGML-TXT") \o "|" \o found[2]))
         @@ base
    ELSE base

\* step3.py:163-189: the rows of a filing, sgml_rows being its tagged-text
\* rows and st its texts.
FilingRows(r, sgml_rows, st) ==
    LET filing == ("Form" :> safe_str(r["Form"]))
                  @@ ("Filing Date" :> safe_str(r["Filing Date"]))
                  @@ ("Accession Number" :> safe_str(r["Accession Number"]))
                  @@ ("Primary Link" :> safe_str(r["Primary Link"]))
                  @@ ("Full Submission TXT" :> safe_str(r["Full Submission TXT"]))
                  @@ ("Registrant" :> safe_str(r["Registrant"]))
                  @@ ("CIK" :> safe_str(r["CIK"]))
                  @@ ("Effective Date" :> st.eff)
                  @@ ("Delaying Amendment" :> IF st.delaying THEN "Y" ELSE "")
        Name(base) == IF base["Class Contract Name"] # "" THEN base["Class Contract Name"]
                      ELSE base["Series Name"]
        placeholder ==
            ("Series ID" :> "") @@ ("Series Name" :> "") @@ ("Class-Contract ID" :> "")
            @@ ("Class Contract Name" :> "") @@ ("Class Symbol" :> "")
            @@ ("Extracted From" :> "NONE")
    IN  IF sgml_rows # << >>
        THEN [i \in 1..Len(sgml_rows) |->
                 filing @@ Enrich(sgml_rows[i],
                                  _extract_ticker_for_series_from_texts(Name(sgml_rows[i]),
                                                                        st.texts))]
        ELSE <<filing @@ placeholder>>

\* step3.py:114-120
FetchedRows(txt_text) ==
    IF txt_text # "" THEN parse_sgml_series_classes(txt_text) ELSE << >>

\* The rows step 3 makes of one filing (step3.py:104-191).
ExtractFiling(r, down) ==
    IF Upper(normalize_spacing(safe_str(r["Form"]))) = "EFFECT" THEN << >>
    ELSE FilingRows(r,
             FetchedRows(FetchOrEmpty(safe_str(r["Full Submission TXT"]), down)),
             FilingTexts(FetchOrEmpty(safe_str(r["Full Submission TXT"]), down),
                         safe_str(r["Primary Link"]), down))

\* step3.py:91-99: the filings a call with since, until and forms looks at.
FilterFilings(df2, since, until, forms) ==
    LET Fdt(r) == ToDatetime(r["Filing Date"])
        Kept(r) ==
            /\ since # "" => (Fdt(r) # NaT /\ ToDatetime(since) # NaT
                              /\ Fdt(r) >= ToDatetime(since))
            /\ until # "" => (Fdt(r) # NaT /\ ToDatetime(until) # NaT
                              /\ Fdt(r) <= ToDatetime(until))
            /\ forms # << >> =>
                   \E i \in 1..Len(forms) : StartsWith(Upper(Fillna(r["Form"])), Upper(forms[i]))
    IN  SelectSeq(df2, Kept)

RECURSIVE Flatten(_)
\* rows_out.extend(extracted_rows), filing after filing.
Flatten(ss) == IF ss = << >> THEN << >> ELSE ss[1] \o Flatten(Tail(ss))

RECURSIVE Ascending(_)
\* The numbers of the set I in ascending order.
Ascending(I) ==
    IF I = {} THEN << >>
    ELSE LET m == CHOOSE x \in I : \A y \in I : x <= y
         IN  <<m>> \o Ascending(I \ {m})

\* DataFrame.drop_duplicates(subset, keep="last"), keys[i] being the key of
\* rows[i]: of the rows with equal keys the last one stays, at its place.
DropDuplicatesLast(rows, keys) ==
    LET I == {i \in 1..Len(rows) : \A j \in (i + 1)..Len(rows) : keys[j] # keys[i]}
        at == Ascending(I)
    IN  [k \in 1..Len(at) |-> rows[at[k]]]

\* pd.DataFrame(rows_out) with the columns of step3.py:195-200.
Frame(rows) ==
    [i \in 1..Len(rows) |->
        [c \in Step3Cols \cup DOMAIN rows[i] |-> IF c \in DOMAIN rows[i] THEN rows[i][c] ELSE NaN]]

\* step3.py:202-207
Step3Key(row) ==
    Fillna(row["Accession Number"]) \o "|" \o Fillna(row["Class-Contract ID"]) \o "|"
    \o Fillna(row["Class Contract Name"]) \o "|" \o Fillna(row["Class Symbol"])

\* A wider key: the effective date tells rows apart as well.
Step3KeyColsWithDate ==
    {"Accession Number", "Class-Contract ID", "Class Contract Name", "Class Symbol",
     "Effective Date"}

\* step3.py:210, key_cols
Step3KeyCols ==
    {"Accession Number", "Class-Contract ID", "Class Contract Name", "Class Symbol"}

\* The rows df has for the columns cols.
Keys(df, cols) == [i \in 1..Len(df) |-> [c \in cols |-> df[i][c]]]

\* DataFrame.to_csv
WriteCsv(df) == [i \in 1..Len(df) |-> [c \in DOMAIN df[i] |-> WriteCell(df[i][c])]]

\* The rows of the file, then the new rows.
Appended(file, df_new) == file \o WriteCsv(df_new)

\* csvio.append_dedupe_csv: the rows of the file, then the new rows; of the
\* rows that agree on key_cols the last one stays.
append_dedupe_csv(file, df_new, key_cols) ==
    DropDuplicatesLast(Appended(file, df_new), Keys(Appended(file, df_new), key_cols))

\* step3.py:101-191
RowsOut(df2, down) == Flatten([i \in 1..Len(df2) |-> ExtractFiling(df2[i], down)])

\* step3.py:202-208
DropDuplicateKeys(df) == DropDuplicatesLast(df, [i \in 1..Len(df) |-> Step3Key(df[i])])

\* df_new of a call of step3_extract_for_trust, << >> when it returns early.
Step3New(file2, since, until, forms, down) ==
    IF file2 = << >> THEN << >>
    ELSE DropDuplicateKeys(Frame(RowsOut(
             IF since # "" \/ until # "" \/ forms # << >>
             THEN FilterFilings(ReadCsv(file2), since, until, forms)
             ELSE ReadCsv(file2), down)))

(***************************************************************************)
(* step4.py: the rollup of the extraction rows into the Fund Status table. *)
(***************************************************************************)
\* step4.py:52, the days after which an initial registration is taken to
\* become effective.
AposEffectiveDays == 75

\* The texts step 4 compares, in the order of Python's str comparison; the
\* dates of 2024 come between "" and the letters.
TextOrder ==
    <<"A1", "A2", "A3", "A4", "Alpha Fund", "Alpha Fund AAA", "Beta Fund", "C:C1", "C:C2", "S1", "S2",
      "S:C1", "S:S1", "S:S2", "Trust A", "alpha fund|T:", "alpha fund|T:AAA", "beta fund|T:", "|T:">>
Rank(s) ==
    IF s = "" THEN 0
    ELSE IF s \in DOMAIN Timestamps THEN Timestamps[s]
    ELSE YearDays + (CHOOSE i \in 1..Len(TextOrder) : TextOrder[i] = s)

\* Tuples of numbers, compared position by position.
LexLess(a, b) ==
    \E i \in 1..Len(a) : a[i] < b[i] /\ \A j \in 1..(i - 1) : a[j] = b[j]

\* A stable sort, keys[i] being the sort key of s[i]: s in ascending order
\* of the keys, rows of equal keys in their order in s.
StableSort(s, keys) ==
    LET n == Len(s)
        Before(j, i) == \/ LexLess(keys[j], keys[i])
                        \/ (keys[j] = keys[i] /\ j < i)
        Pos(i) == Cardinality({j \in 1..n : j # i /\ Before(j, i)}) + 1
    IN  [p \in 1..n |-> s[CHOOSE i \in 1..n : Pos(i) = p]]

\* row.get(col, default) and Python's or.
Get(row, col, default) == IF col \in DOMAIN row THEN row[col] ELSE default
Or(a, b) == IF Truthy(a) THEN a ELSE b

\* The series id taken before the class id.
GroupKeySeriesFirst(class_id, series_id, name_key, tickerU) ==
    IF series_id # "" THEN "S:" \o series_id
    ELSE IF class_id # "" THEN "C:" \o class_id
    ELSE name_key \o "|T:" \o tickerU

\* step4.py:26-28: the key of the group of a row.
GroupKey(class_id, series_id, name_key, tickerU) ==
    IF class_id # "" THEN "C:" \o class_id
    ELSE IF series_id # "" THEN "S:" \o series_id
    ELSE name_key \o "|T:" \o tickerU

\* step4.py:12-28: the columns step 4 derives for a row.
Derived(row) ==
    LET class_id == Fillna(Get(row, "Class-Contract ID", ""))
        series_id == Fillna(Get(row, "Series ID", ""))
        disp_raw == IF Fillna(row["Class Contract Name"]) = ""
                    THEN Fillna(row["Series Name"])
                    ELSE Fillna(row["Class Contract Name"])
        clean == clean_fund_name_for_rollup(disp_raw)
        tickerU == Upper(Fillna(Get(row, "Class Symbol", "")))
    IN  ("_fdt" :> ToDatetime(Get(row, "Filing Date", "")))
        @@ ("FormU" :> Upper(Fillna(Get(row, "Form", ""))))
        @@ ("TickerU" :> tickerU)
        @@ ("Display Name Raw" :> disp_raw)
        @@ ("Display Name Clean" :> clean)
        @@ ("Display Name Key" :> Casefold(clean))
        @@ ("__gkey" :> GroupKey(class_id, series_id, Casefold(clean), tickerU))
        @@ row

\* step4.py:30-32
_latest_nonempty(series) ==
    LET s == SelectSeq([i \in 1..Len(series) |-> Str(Fillna(series[i]))], Truthy)
    IN  IF Len(s) > 0 THEN s[Len(s)] ELSE ""

Column(g, col) == [i \in 1..Len(g) |-> g[i][col]]

\* step4.py:36-95: the Fund Status row of one group, gg being its rows in
\* the order of their filing dates.
PickRow(gg, key) ==
    LET IsB(r) == StartsWith(r["FormU"], "485B")
        IsA(r) == StartsWith(r["FormU"], "485A")
        Is497(r) == StartsWith(r["FormU"], "497")
        gB == SelectSeq(gg, IsB)
        gA == SelectSeq(gg, IsA)
        g497 == SelectSeq(gg, Is497)
        Last(s) == s[Len(s)]
        chosen == IF Len(gB) > 0 THEN Last(gB) ELSE Last(gA)
        lp_date == Get(chosen, "Filing Date", "")
        eff_parsed == Or(Get(chosen, "Effective Date", ""),
                         Or(Get(chosen, "Effective Date (derived)", ""), ""))
        prospectus ==
            IF Len(gB) > 0
            THEN ("Latest Prospectus Form" :> Get(chosen, "Form", ""))
                 @@ ("Latest Prospectus Date" :> lp_date)
                 @@ ("Latest Prospectus Link" :> Get(chosen, "Primary Link", ""))
                 @@ ("Latest Prospectus Effective (derived)" :>
                        IF Truthy(eff_parsed) THEN eff_parsed ELSE lp_date)
                 @@ ("Latest Prospectus Source" :> "485B")
                 @@ ("Status" :> "BPOS chosen")
            ELSE IF Len(gA) > 0
            THEN ("Latest Prospectus Form" :> Get(chosen, "Form", ""))
                 @@ ("Latest Prospectus Date" :> lp_date)
                 @@ ("Latest Prospectus Link" :> Get(chosen, "Primary Link", ""))
                 @@ ("Latest Prospectus Effective (derived)" :>
                        IF Truthy(eff_parsed) THEN eff_parsed
                        ELSE date_plus_days(lp_date, AposEffectiveDays))
                 @@ ("Latest Prospectus Source" :> "485A")
                 @@ ("Status" :> IF Truthy(eff_parsed) THEN "APOS chosen (eff=parsed)"
                                 ELSE "APOS chosen (eff=+75d)")
            ELSE ("Latest Prospectus Form" :> "")
                 @@ ("Latest Prospectus Date" :> "")
                 @@ ("Latest Prospectus Link" :> "")
                 @@ ("Latest Prospectus Effective (derived)" :> "")
                 @@ ("Latest Prospectus Source" :> "")
                 @@ ("Status" :> IF Len(g497) > 0 THEN "Supplements only"
                                 ELSE "No prospectus form found")
        Of(s, col) == IF Len(s) > 0 THEN Str(Last(s)[col]) ELSE ""
    IN  ("Fund Key" :> key)
        @@ ("Registrant" :> _latest_nonempty(Column(gg, "Registrant")))
        @@ ("CIK" :> _latest_nonempty([i \in 1..Len(gg) |-> Str(gg[i]["CIK"])]))
        @@ ("Canonical Fund Name" :>
               titlecase_safe(_latest_nonempty(Column(gg, "Display Name Clean"))))
        @@ ("Ticker (if any)" :> _latest_nonempty(Column(gg, "TickerU")))
        @@ ("First Seen Date" :> Str(gg[1]["Filing Date"]))
        @@ ("First Seen Form" :> Str(gg[1]["Form"]))
        @@ ("First Seen Link" :> Str(gg[1]["Primary Link"]))
        @@ ("Latest APOS Date" :> Of(gA, "Filing Date"))
        @@ ("Latest APOS Link" :> Of(gA, "Primary Link"))
        @@ ("Latest BPOS Date" :> Of(gB, "Filing Date"))
        @@ ("Latest BPOS Link" :> Of(gB, "Primary Link"))
        @@ ("Latest 497/497K Date" :> Of(g497, "Filing Date"))
        @@ ("Latest 497/497K Link" :> Of(g497, "Primary Link"))
        @@ prospectus

\* step4.py:34-35: the group is sorted by filing date, stably, NaT last.
_pick_latest(g, key) ==
    PickRow(StableSort(g, [i \in 1..Len(g) |->
                <<IF g[i]["_fdt"] = NaT THEN YearDays + 1 ELSE g[i]["_fdt"]>>]), key)

\* step4.py:97, df.groupby("__gkey").apply(_pick_latest): one row per
\* group, the groups in the order of their keys.
GroupRows(df) ==
    LET keys == {df[i]["__gkey"] : i \in 1..Len(df)}
        ranks == Ascending({Rank(k) : k \in keys})
        KeyAt(p) == CHOOSE k \in keys : Rank(k) = ranks[p]
        Group(k) == LET In(r) == r["__gkey"] = k IN SelectSeq(df, In)
    IN  [p \in 1..Len(ranks) |-> _pick_latest(Group(KeyAt(p)), KeyAt(p))]

\* step4.py:98: by registrant and canonical name ascending, by latest
\* prospectus date descending, NaN last.
SortRoll(rows) ==
    StableSort(rows, [i \in 1..Len(rows) |->
        <<Rank(rows[i]["Registrant"]), Rank(rows[i]["Canonical Fund Name"]),
          IF rows[i]["Latest Prospectus Date"] = NaN THEN YearDays + 1
          ELSE YearDays - Rank(rows[i]["Latest Prospectus Date"])>>])

\* step4.py:99-101: of the rows with the same name and ticker the last stays.
DedupeRoll(sorted) ==
    DropDuplicatesLast(sorted, [i \in 1..Len(sorted) |->
        <<Casefold(Fillna(sorted[i]["Canonical Fund Name"])),
          Upper(Fillna(sorted[i]["Ticker (if any)"]))>>])

\* step4.py:12-28
DerivedFrame(csv) == [i \in 1..Len(csv) |-> Derived(csv[i])]

\* step4.py:10-28 and 97-102: the table step 4 writes for the rows of file3.
Rollup(file3) == WriteCsv(DedupeRoll(SortRoll(GroupRows(DerivedFrame(ReadCsv(file3))))))

(***************************************************************************)
(* Step 3, then step 4, run after run, for one registrant: the order in    *)
(* which run_pipeline calls them (run_pipeline.py:172-217).  What the      *)
(* driver does with step 3's return value is not part of these actions.    *)
(***************************************************************************)
\* The arguments of a run: no filter, since, or until with forms.
Args ==
    {[since |-> "", until |-> "", forms |-> << >>],
     [since |-> "2024-02-20", until |-> "", forms |-> << >>],
     [since |-> "", until |-> "2024-02-20", forms |-> <<"485">>]}

\* The links of a filing.
Links(r) == {r["Full Submission TXT"], r["Primary Link"]} \ {""}

\* The outages of a run: the links whose fetch raises.  Filings are
\* processed one by one, each from its own links; an outage hits the
\* links of one filing.
Outages(file2) ==
    {{}} \cup UNION {SUBSET Links(file2[i]) \ {{}} : i \in 1..Len(file2)}

\* The runs the driver has completed.
Runs == IF hist = << >> THEN 0 ELSE hist[Len(hist)].run

\* step3.py:193 and 209-211: nothing is written when there is no row.
Step3Write(a, down, df_new) ==
    /\ extracted' = IF df_new = << >> THEN extracted
                    ELSE append_dedupe_csv(extracted, df_new, Step3KeyCols)
    /\ lastRun' = [since |-> a.since, until |-> a.until, forms |-> a.forms,
                   down |-> down, new |-> df_new]

\* step3_extract_for_trust
Step3 ==
    /\ phase = "step3"
    /\ Runs < MaxRuns
    /\ \E a \in Args, down \in Outages(p2) :
          Step3Write(a, down, Step3New(p2, a.since, a.until, a.forms, down))
    /\ phase' = "step4"
    /\ UNCHANGED <<laterVars, lastVars, clientVars, p2, fundStatus, hist>>

\* step4.py:102, and the record of the run that ends with it.
Step4Write(table) ==
    /\ fundStatus' = table
    /\ hist' = IF hist = << >> THEN <<[run |-> 1, since |-> lastRun.since,
                                       until |-> lastRun.until, forms |-> lastRun.forms,
                                       rows |-> extracted, table |-> table]>>
               ELSE <<hist[Len(hist)],
                      [run |-> Runs + 1, since |-> lastRun.since,
                       until |-> lastRun.until, forms |-> lastRun.forms,
                       rows |-> extracted, table |-> table]>>

\* step4_rollup_for_trust; it returns early, the table left as it is, when
\* there is no extraction row (step4.py:9-11).
Step4 ==
    /\ phase = "step4"
    /\ Step4Write(IF extracted = << >> THEN fundStatus ELSE Rollup(extracted))
    /\ lastRun' = NoRun
    /\ phase' = "step3"
    /\ UNCHANGED <<laterVars, lastVars, clientVars, p2, extracted>>

ExtractNext ==
    \/ Step3
    \/ Step4

\* The prospectus bases of the model: up to MaxFilings filings of the
\* archive, latest first or earliest first.
Bases ==
    LET Acc(r) == r["Accession Number"]
        Up(s) == \A i, j \in 1..Len(s) : i < j => Rank(Acc(s[i])) < Rank(Acc(s[j]))
        Down(s) == \A i, j \in 1..Len(s) : i < j => Rank(Acc(s[i])) > Rank(Acc(s[j]))
    IN  {s \in SeqsUpTo(Filings, MaxFilings) : Up(s) \/ Down(s)}

\* A registrant whose prospectus base is written and of whom nothing has
\* been extracted yet.
ExtractInit ==
    /\ mode = "many"
    /\ entry = "client"
    /\ cfgUA = OperatorUA
    /\ rateLimit = 1
    /\ items = << >>
    /\ webCache = [u \in Urls |-> NoEntry]
    /\ subCache = [p \in Paddeds |-> NoEntry]
    /\ writable = TRUE
    /\ observe = FALSE
    /\ userAgent = ClientUserAgent(GivenUserAgent(entry, cfgUA))
    /\ pcBatch = "init"
    /\ order = << >>
    /\ idx = 1
    /\ results = EmptyMap
    /\ tasks = << >>
    /\ sem = rateLimit
    /\ level = 0
    /\ window = [i \in 1..rateLimit |-> 0]
    /\ sent = {}
    /\ p2 \in Bases
    /\ extracted = << >>
    /\ fundStatus = << >>
    /\ phase = "step3"
    /\ hist = << >>
    /\ lastRun = NoRun
    /\ NoLater

SpecExtract == ExtractInit /\ [][ExtractNext]_vars

(***************************************************************************)
(* The extraction step's properties.                                       *)
(***************************************************************************)
\* The key of an extraction row.
Tuple(row) ==
    <<row["Accession Number"], row["Class-Contract ID"], row["Class Contract Name"],
      row["Class Symbol"]>>

\* A row of a DataFrame as to_csv writes it.
CsvRow(row) == [c \in DOMAIN row |-> WriteCell(row[c])]

\* C9: after any sequence of extraction runs no two accumulated extraction
\* rows share the tuple (Accession Number, Class-Contract ID, Class Contract
\* Name, Class Symbol), and every row a run has just written is the row the
\* accumulated set holds for its tuple: it has superseded any older row of
\* that tuple (last write wins).
C9_UniqueRowKeys ==
    /\ \A i, j \in 1..Len(extracted) :
           i # j => Tuple(extracted[i]) # Tuple(extracted[j])
    /\ phase = "step4" =>
           \A k \in 1..Len(lastRun.new) :
               \E i \in 1..Len(extracted) :
                   /\ extracted[i] = CsvRow(lastRun.new[k])
                   /\ \A j \in 1..Len(extracted) :
                          Tuple(extracted[j]) = Tuple(extracted[i]) => j = i

\* C9's case: a run has re-extracted a filing and written a row that differs
\* from the row the previous run left for the same tuple; the new row is in
\* the accumulated set and the old one is gone.
C9_Witness ==
    /\ phase = "step4"
    /\ hist # << >>
    /\ \E k \in 1..Len(lastRun.new), o \in 1..Len(hist[Len(hist)].rows) :
           LET new == CsvRow(lastRun.new[k])
               old == hist[Len(hist)].rows[o]
           IN  /\ Tuple(new) = Tuple(old)
               /\ new # old
               /\ new \in Range(extracted)
               /\ old \notin Range(extracted)

\* Two runs over the same filing set: the last two runs had the same
\* arguments (the prospectus base never changes).
SameFilingSetTwice ==
    /\ Len(hist) = 2
    /\ hist[1].since = hist[2].since
    /\ hist[1].until = hist[2].until
    /\ hist[1].forms = hist[2].forms

\* C10, as claimed: running the extraction step twice over the same filing
\* set is idempotent: the second run does not increase the number of
\* extraction rows, and the Fund Status table rolled up after the second
\* run equals the one rolled up after the first.
C10_SecondRunIdempotent ==
    SameFilingSetTwice =>
        /\ Len(hist[2].rows) <= Len(hist[1].rows)
        /\ hist[2].table = hist[1].table

(***************************************************************************)
(* Step 4 as a function of the extraction file it finds.  The file is one  *)
(* that step 3 can have written: rows of the fifteen columns, no two of    *)
(* one (accession, class id, class name, symbol) tuple.  Between two       *)
(* rollup runs the operator may remove the file.                           *)
(***************************************************************************)
MaxRows == 3

\* A row of the extraction file (step3.py:163-189).
ExtractionRow(acc, form, date, link, ids, sym, eff) ==
    ("Accession Number" :> acc) @@ ("Form" :> form) @@ ("Filing Date" :> date)
    @@ ("Primary Link" :> link) @@ ("Full Submission TXT" :> "")
    @@ ("Registrant" :> "Trust A") @@ ("CIK" :> "7")
    @@ ("Series ID" :> ids[1]) @@ ("Series Name" :> ids[2])
    @@ ("Class-Contract ID" :> ids[3]) @@ ("Class Contract Name" :> ids[4])
    @@ ("Class Symbol" :> sym)
    @@ ("Extracted From" :> IF ids[2] = "" /\ ids[4] = "" THEN "NONE" ELSE "SGML-TXT")
    @@ ("Effective Date" :> eff) @@ ("Delaying Amendment" :> "")

\* The rows of the model's extraction files: class C1 of series S1 in two
\* 485BPOS filings of one day, an earlier one and a later 485APOS filing;
\* class C2 in two 485APOS filings; series S1 without a class; two rows of
\* a fund without identifiers; a series whose identifier reads like that of
\* class C1; the placeholder row of a filing without funds.
RowPool ==
    <<ExtractionRow("A1", "485BPOS", "2024-03-05", "a1.htm",
                    <<"S1", "Alpha Fund", "C1", "Alpha Fund">>, "AAA", "2024-04-01"),
      ExtractionRow("A5", "485BPOS", "2024-03-05", "a5.htm",
                    <<"S1", "Alpha Fund", "C1", "Alpha Fund">>, "AAA", ""),
      ExtractionRow("A10", "485BPOS", "2024-02-20", "a10.htm",
                    <<"S1", "Alpha Fund", "C1", "Alpha Fund">>, "AAA", ""),
      ExtractionRow("A6", "485APOS", "2024-03-20", "a6.htm",
                    <<"S1", "Alpha Fund", "C1", "Alpha Fund">>, "", ""),
      ExtractionRow("A2", "485APOS", "2024-01-10", "a2.pdf",
                    <<"S2", "Beta Fund", "C2", "Beta  Fund">>, "BBB", ""),
      ExtractionRow("A7", "485APOS", "2024-02-20", "a7.htm",
                    <<"S2", "Beta Fund", "C2", "Beta  Fund">>, "BBB", "2024-04-01"),
      ExtractionRow("A8", "485BPOS", "2024-01-10", "a8.htm",
                    <<"S1", "Alpha Fund", "", "">>, "AAA", ""),
      ExtractionRow("A9", "497", "2024-02-20", "a9.htm",
                    <<"", "", "", "ALPHA FUND">>, "AAA", ""),
      ExtractionRow("A4", "497", "2024-03-05", "a4.htm",
                    <<"", "Alpha Fund", "", "">>, "aaa", ""),
      ExtractionRow("A11", "485BPOS", "2024-02-20", "a11.htm",
                    <<"C1", "Beta Fund", "", "">>, "", ""),
      ExtractionRow("A3", "497", "2024-02-20", "",
                    <<"", "", "", "">>, "", "")>>

\* The extraction files of the model: up to MaxRows rows of the pool, in
\* the pool's order or against it.
RowFiles ==
    LET Up(f) == \A i, j \in 1..Len(f) : i < j => f[i] < f[j]
        Down(f) == \A i, j \in 1..Len(f) : i < j => f[i] > f[j]
    IN  {[i \in 1..Len(f) |-> RowPool[f[i]]] :
            f \in {g \in SeqsUpTo(1..Len(RowPool), MaxRows) : Up(g) \/ Down(g)}}

\* The operator removes the extraction file between two runs.
RemoveExtracted ==
    /\ phase = "step3"
    /\ extracted # << >>
    /\ Runs < MaxRuns
    /\ extracted' = << >>
    /\ phase' = "step4"
    /\ UNCHANGED <<laterVars, lastVars, clientVars, p2, fundStatus, hist, lastRun>>

RollupNext ==
    \/ Step4
    \/ RemoveExtracted

\* The fetch client built and at rest.
IdleClient ==
    /\ mode = "many"
    /\ entry = "client"
    /\ cfgUA = OperatorUA
    /\ rateLimit = 1
    /\ items = << >>
    /\ webCache = [u \in Urls |-> NoEntry]
    /\ subCache = [p \in Paddeds |-> NoEntry]
    /\ writable = TRUE
    /\ observe = FALSE
    /\ userAgent = ClientUserAgent(GivenUserAgent(entry, cfgUA))
    /\ pcBatch = "init"
    /\ order = << >>
    /\ idx = 1
    /\ results = EmptyMap
    /\ tasks = << >>
    /\ sem = rateLimit
    /\ level = 0
    /\ window = [i \in 1..rateLimit |-> 0]
    /\ sent = {}

\* A registrant whose extraction file is written and whose rollup is due.
RollupInit ==
    /\ IdleClient
    /\ p2 = << >>
    /\ extracted \in RowFiles
    /\ fundStatus = << >>
    /\ phase = "step4"
    /\ hist = << >>
    /\ lastRun = NoRun
    /\ NoLater

SpecRollup == RollupInit /\ [][RollupNext]_vars

(***************************************************************************)
(* The rollup step's properties.                                           *)
(***************************************************************************)
\* The orders the rows of a file can be in.
Perms(s) ==
    {[i \in 1..Len(s) |-> s[f[i]]] :
        f \in {g \in [1..Len(s) -> 1..Len(s)] : \A i, j \in 1..Len(s) : g[i] = g[j] => i = j}}

\* What a Fund Status row says of the chosen prospectus, the links, the
\* ticker, the name and the first filing.
Chosen(t) ==
    [c \in {"Fund Key", "Canonical Fund Name", "Ticker (if any)",
            "First Seen Date", "First Seen Form", "First Seen Link",
            "Latest APOS Link", "Latest BPOS Link", "Latest 497/497K Link",
            "Latest Prospectus Form", "Latest Prospectus Date",
            "Latest Prospectus Link", "Latest Prospectus Source"} |-> t[c]]

\* A rollup run has just ended on a file with rows.
RolledUp == phase = "step3" /\ hist # << >> /\ extracted # << >>

\* C11: the rollup does not depend on the order of the extraction rows:
\* whatever the order of the rows of the file, the same Fund Status rows
\* (chosen prospectus, links, ticker, name, first-seen fields) come out,
\* also when rows of one group have equal filing dates.
C11_OrderIndependent ==
    RolledUp =>
        \A q \in Perms(extracted) :
            {Chosen(t) : t \in Range(Rollup(q))} = {Chosen(t) : t \in Range(fundStatus)}

\* The group key step 4 gives each row of the extraction file.
GroupKeys == [i \in 1..Len(extracted) |-> DerivedFrame(ReadCsv(extracted))[i]["__gkey"]]

\* The rows of the extraction file that make up the group of key k.
GroupOf(k) == {extracted[i] : i \in {j \in 1..Len(extracted) : GroupKeys[j] = k}}

\* The 485BPOS and the 485APOS rows among rows.
PostEffective(rows) == {r \in rows : r["Form"] = "485BPOS"}
InitialRegistration(rows) == {r \in rows : r["Form"] = "485APOS"}

\* C12: in a group with at least one 485B row the latest prospectus (form,
\* date, link, source) is that of a 485B row of the group, one of the latest
\* filing date among the group's 485B rows, never that of a 485A row, also
\* when a 485A row of the group was filed later.
C12_PostEffectivePreferred ==
    RolledUp =>
        \A n \in 1..Len(fundStatus) :
            LET t == fundStatus[n]
                gB == PostEffective(GroupOf(t["Fund Key"]))
            IN  gB # {} =>
                    /\ t["Latest Prospectus Source"] = "485B"
                    /\ \E b \in gB :
                          /\ t["Latest Prospectus Form"] = b["Form"]
                          /\ t["Latest Prospectus Date"] = b["Filing Date"]
                          /\ t["Latest Prospectus Link"] = b["Primary Link"]
                          /\ \A c \in gB : ToDatetime(c["Filing Date"]) <= ToDatetime(b["Filing Date"])

\* A group with two 485B rows of different dates and a 485A row filed after
\* both has been rolled up.
C12_Witness ==
    /\ RolledUp
    /\ \E n \in 1..Len(fundStatus) :
          LET g == GroupOf(fundStatus[n]["Fund Key"])
          IN  /\ \E b, c \in PostEffective(g) : b["Filing Date"] # c["Filing Date"]
              /\ \E a \in InitialRegistration(g) :
                    \A b \in PostEffective(g) :
                        ToDatetime(a["Filing Date"]) > ToDatetime(b["Filing Date"])

\* The rows of the latest filing date among rows.
LatestOf(rows) ==
    {r \in rows : \A c \in rows : ToDatetime(c["Filing Date"]) <= ToDatetime(r["Filing Date"])}

\* C13: when the chosen row is a 485A row without a parsed effective date,
\* the derived effective date is its filing date plus 75 days and the status
\* records the +75d derivation; a parsed effective date is used as it is
\* and the status records that it was parsed.
C13_EffectiveDateDerivation ==
    RolledUp =>
        \A n \in 1..Len(fundStatus) :
            LET t == fundStatus[n]
                g == GroupOf(t["Fund Key"])
            IN  (PostEffective(g) = {} /\ InitialRegistration(g) # {}) =>
                    \E a \in LatestOf(InitialRegistration(g)) :
                        IF a["Effective Date"] = ""
                        THEN /\ t["Latest Prospectus Effective (derived)"] =
                                    date_plus_days(a["Filing Date"], AposEffectiveDays)
                             /\ t["Status"] = "APOS chosen (eff=+75d)"
                        ELSE /\ t["Latest Prospectus Effective (derived)"] = a["Effective Date"]
                             /\ t["Status"] = "APOS chosen (eff=parsed)"

(***************************************************************************)
(* _extract_ticker_for_series_from_texts, candidate by candidate: the      *)
(* parenthetical after the series name in each text, then the labelled     *)
(* token near each occurrence of the name.  The candidates are upper-cased *)
(* before they are validated (step3.py:26, 36).                            *)
(***************************************************************************)
MaxCands == 1

\* The candidate tokens of the model.
Tokens == {"", "A", "1A", "SCCO", "ETF", "FUND", "MEMBER", "123", "123456", "ABCDEF", "ABCDEFG"}

\* step3.py:27 and 37: the candidate is validated.
Judge(cand) == Append(ticker.judged, [tok |-> cand, ok |-> _valid_ticker(cand)])

\* step3.py:23-27: the parenthetical of the next text.
TryParen ==
    /\ ticker.pc = "paren"
    /\ ticker.parens # << >>
    /\ ticker' = IF _valid_ticker(Head(ticker.parens))
                 THEN [ticker EXCEPT !.pc = "done", !.judged = Judge(Head(ticker.parens)),
                                     !.ret = <<Head(ticker.parens), "TITLE-PAREN">>]
                 ELSE [ticker EXCEPT !.parens = Tail(ticker.parens),
                                     !.judged = Judge(Head(ticker.parens))]
    /\ UNCHANGED <<clientVars, extractVars, lastVars, nameHistory, bulk, driver>>

\* step3.py:28: no text is left for the first loop.
LabelLoopStarts ==
    /\ ticker.pc = "paren"
    /\ ticker.parens = << >>
    /\ ticker' = [ticker EXCEPT !.pc = "label"]
    /\ UNCHANGED <<clientVars, extractVars, lastVars, nameHistory, bulk, driver>>

\* step3.py:29-37: the labelled token of the next window.
TryLabel ==
    /\ ticker.pc = "label"
    /\ ticker.labels # << >>
    /\ ticker' = IF _valid_ticker(Head(ticker.labels))
                 THEN [ticker EXCEPT !.pc = "done", !.judged = Judge(Head(ticker.labels)),
                                     !.ret = <<Head(ticker.labels), "LABEL-WINDOW">>]
                 ELSE [ticker EXCEPT !.labels = Tail(ticker.labels),
                                     !.judged = Judge(Head(ticker.labels))]
    /\ UNCHANGED <<clientVars, extractVars, lastVars, nameHistory, bulk, driver>>

\* step3.py:38
ReturnEmpty ==
    /\ ticker.pc = "label"
    /\ ticker.labels = << >>
    /\ ticker' = [ticker EXCEPT !.pc = "done", !.ret = <<"", "">>]
    /\ UNCHANGED <<clientVars, extractVars, lastVars, nameHistory, bulk, driver>>

TickerNext ==
    \/ TryParen
    \/ LabelLoopStarts
    \/ TryLabel
    \/ ReturnEmpty

\* The call begins: the texts hold up to MaxCands parentheticals and up to
\* MaxCands labelled tokens for the series name.
TickerInit ==
    /\ NoLast
    /\ IdleClient
    /\ p2 = << >>
    /\ extracted = << >>
    /\ fundStatus = << >>
    /\ phase = "idle"
    /\ hist = << >>
    /\ lastRun = NoRun
    /\ ticker \in [pc : {"paren"}, parens : SeqsUpTo(Tokens, MaxCands),
                   labels : SeqsUpTo(Tokens, MaxCands), judged : {<< >>}, ret : {<< >>}]
    /\ nameHistory = << >>
    /\ bulk = NoBulk
    /\ driver = NoDriver

SpecTicker == TickerInit /\ [][TickerNext]_vars

\* C14: _valid_ticker accepts a candidate token exactly when its length is
\* between 1 and 6, it contains a letter and it is no stopword; it rejects
\* "ETF" and accepts "SCCO".
C14_ValidTicker ==
    \A i \in 1..Len(ticker.judged) :
        LET tok == ticker.judged[i].tok
            ok == ticker.judged[i].ok
        IN  /\ ok <=> /\ Len(tok) >= 1 /\ Len(tok) <= 6
                      /\ tok \notin {"", "123", "123456"}
                      /\ tok \notin {"THE", "AND", "FOR", "WITH", "ETF", "FUND", "RISK", "USD", "MEMBER"}
            /\ tok = "ETF" => ~ok
            /\ tok = "SCCO" => ok

\* "ETF" was rejected as the parenthetical and "SCCO" accepted as the
\* labelled token.
C14_Witness ==
    /\ ticker.judged = <<[tok |-> "ETF", ok |-> FALSE], [tok |-> "SCCO", ok |-> TRUE]>>
    /\ ticker.ret = <<"SCCO", "LABEL-WINDOW">>

(***************************************************************************)
(* Step 5: the name history of the series of an extraction file.           *)
(***************************************************************************)
\* step5.py:46-55: the columns step 5 derives for a row.
NameColumns(row) ==
    LET name == IF Fillna(Get(row, "Class Contract Name", "")) = ""
                THEN Fillna(Get(row, "Series Name", ""))
                ELSE Fillna(Get(row, "Class Contract Name", ""))
    IN  ("_fdt" :> ToDatetime(Get(row, "Filing Date", "")))
        @@ ("_name" :> name)
        @@ ("_name_key" :> Casefold(clean_fund_name_for_rollup(name)))
        @@ row

NameFrame(csv) == [i \in 1..Len(csv) |-> NameColumns(csv[i])]

\* step5.py:47 and 72, sort_values("_fdt"): the sort is not a stable one, so
\* rows of one filing date come in any order; NaT comes last.
SortedOrders(df) ==
    LET Key(r) == IF r["_fdt"] = NaT THEN YearDays + 1 ELSE r["_fdt"]
    IN  {q \in Perms(df) : \A i, j \in 1..Len(q) : i < j => Key(q[i]) <= Key(q[j])}

\* step5.py:84-94: seen_names after a row, seen being the entries in the
\* order of their insertion.
Seen(seen, row) ==
    IF ~(Truthy(row["_name_key"]) /\ Truthy(row["_name"])) THEN seen
    ELSE IF \E k \in 1..Len(seen) : seen[k].key = row["_name_key"]
    THEN [k \in 1..Len(seen) |->
             IF seen[k].key = row["_name_key"]
             THEN [seen[k] EXCEPT !.last_date = Str(Get(row, "Filing Date", ""))]
             ELSE seen[k]]
    ELSE Append(seen, [key |-> row["_name_key"], name |-> row["_name"],
                       first_date |-> Str(Get(row, "Filing Date", "")),
                       last_date |-> Str(Get(row, "Filing Date", "")),
                       first_form |-> Str(Get(row, "Form", "")),
                       first_accession |-> Str(Get(row, "Accession Number", ""))])

RECURSIVE SeenNames(_, _)
\* step5.py:75-94: seen_names after the rows of g, begun with seen.  The
\* extraction file has no Prospectus Name column, so lines 97-111 add
\* nothing (step5.py:58-63).
SeenNames(g, seen) ==
    IF g = << >> THEN seen ELSE SeenNames(Tail(g), Seen(seen, Head(g)))

\* The key inserted first.
FirstKey(seen) == seen[1].key

\* step5.py:115: the first key, in the order of insertion, of the greatest
\* last_date.
LatestKey(seen) ==
    seen[CHOOSE k \in 1..Len(seen) :
            /\ \A m \in 1..Len(seen) : Rank(seen[m].last_date) <= Rank(seen[k].last_date)
            /\ \A m \in 1..(k - 1) : Rank(seen[m].last_date) < Rank(seen[k].last_date)].key

\* step5.py:117-131: the history rows of a series.
HistoryRows(series_id, seen) ==
    [k \in 1..Len(seen) |->
        LET is_current == IF seen[k].key = LatestKey(seen) THEN "Y" ELSE ""
        IN  ("Series ID" :> series_id)
            @@ ("Name" :> seen[k].name)
            @@ ("Name Clean" :> clean_fund_name_for_rollup(seen[k].name))
            @@ ("First Seen Date" :> seen[k].first_date)
            @@ ("Last Seen Date" :> IF is_current = "" THEN seen[k].last_date ELSE "")
            @@ ("Is Current" :> is_current)
            @@ ("Source Form" :> seen[k].first_form)
            @@ ("Source Accession" :> seen[k].first_accession)
            @@ ("Name Source" :> "SGML")]

\* step5.py:68-72: the rows of a series, in the order of df.
SeriesGroup(df, series_id) ==
    LET In(r) == r["Series ID"] = series_id IN SelectSeq(df, In)

\* step5.py:68-131: the history rows of the series of df, series by series
\* in the order of the identifiers; rows without one are left out.
SeriesHistories(df, ranks) ==
    [p \in 1..Len(ranks) |->
        LET series_id == CHOOSE x \in {df[i]["Series ID"] : i \in 1..Len(df)} \ {NaN} :
                            Rank(x) = ranks[p]
        IN  HistoryRows(series_id, SeenNames(SeriesGroup(df, series_id), << >>))]

history_rows(df) ==
    Flatten(SeriesHistories(df,
        Ascending({Rank(x) : x \in {df[i]["Series ID"] : i \in 1..Len(df)} \ {NaN}})))

\* step5.py:139: by series and, within it, by the first-seen date.
SortHistory(rows) ==
    StableSort(rows, [i \in 1..Len(rows) |->
        <<Rank(rows[i]["Series ID"]), Rank(rows[i]["First Seen Date"])>>])

\* step5.py:133-141: nothing is written when there is no history row.
Step5Write(rows) ==
    nameHistory' = IF rows = << >> THEN nameHistory ELSE WriteCsv(SortHistory(rows))

\* step5_name_history_for_trust
Step5 ==
    /\ phase = "step5"
    /\ IF extracted = << >>
       THEN UNCHANGED nameHistory
       ELSE \E df \in SortedOrders(NameFrame(ReadCsv(extracted))) :
               Step5Write(history_rows(df))
    /\ phase' = "idle"
    /\ UNCHANGED <<clientVars, lastVars, p2, extracted, fundStatus, hist, lastRun, ticker, bulk, driver>>

\* The rows of the model's extraction files for step 5: series S1 under the
\* name Alpha Fund, then Beta Fund, then Alpha Fund again, two names on one
\* day, series S2, a row without a series and a series row without a name.
NamePool ==
    <<ExtractionRow("A2", "485APOS", "2024-01-10", "a2.pdf",
                    <<"S1", "Alpha Fund", "C1", "Alpha Fund">>, "", ""),
      ExtractionRow("A3", "497", "2024-02-20", "",
                    <<"S1", "Alpha Fund", "C1", "Alpha Fund">>, "", ""),
      ExtractionRow("A1", "485BPOS", "2024-03-05", "a1.htm",
                    <<"S1", "Beta Fund", "C1", "Beta Fund">>, "", ""),
      ExtractionRow("A5", "485BPOS", "2024-03-05", "a5.htm",
                    <<"S1", "Beta Fund", "C1", "ALPHA FUND">>, "", ""),
      ExtractionRow("A6", "485APOS", "2024-03-20", "a6.htm",
                    <<"S1", "Beta Fund", "C2", "Beta  Fund">>, "BBB", ""),
      ExtractionRow("A7", "485APOS", "2024-02-20", "a7.htm",
                    <<"S2", "Beta Fund", "", "">>, "", ""),
      ExtractionRow("A9", "497", "2024-02-20", "a9.htm",
                    <<"", "", "", "Alpha Fund">>, "", ""),
      ExtractionRow("A8", "485BPOS", "2024-01-10", "a8.htm",
                    <<"S1", "", "", "">>, "", "")>>

\* The extraction files of the model for step 5: up to MaxRows rows of the
\* pool, in the pool's order or against it.
NameFiles ==
    LET Up(f) == \A i, j \in 1..Len(f) : i < j => f[i] < f[j]
        Down(f) == \A i, j \in 1..Len(f) : i < j => f[i] > f[j]
    IN  {[i \in 1..Len(f) |-> NamePool[f[i]]] :
            f \in {g \in SeqsUpTo(1..Len(NamePool), MaxRows) : Up(g) \/ Down(g)}}

\* A registrant whose extraction file is written and whose name history is
\* due.
HistoryInit ==
    /\ IdleClient
    /\ p2 = << >>
    /\ extracted \in NameFiles
    /\ fundStatus = << >>
    /\ phase = "step5"
    /\ hist = << >>
    /\ lastRun = NoRun
    /\ NoLater

SpecHistory == HistoryInit /\ [][Step5]_vars

\* The named rows of series sid in the extraction file.
NamedRows(sid) ==
    {r \in Range(extracted) :
        r["Series ID"] = sid /\ (r["Class Contract Name"] # "" \/ r["Series Name"] # "")}

\* The name of an extraction row as step 5 compares it.
NameKey(r) ==
    Casefold(normalize_spacing(IF r["Class Contract Name"] # "" THEN r["Class Contract Name"]
                               ELSE r["Series Name"]))

\* The entries of series sid in the name history.
Entries(sid) == {n \in 1..Len(nameHistory) : nameHistory[n]["Series ID"] = sid}

\* C15: every series with a named row has exactly one entry flagged
\* current; that entry's name is one last seen on the latest filing date of
\* the series and its Last Seen Date is empty; every other entry of the
\* series is not current and has a Last Seen Date.
C15_OneCurrentName ==
    phase = "idle" =>
        \A sid \in {"S1", "S2"} :
            NamedRows(sid) # {} =>
                \E n \in Entries(sid) :
                    /\ nameHistory[n]["Is Current"] = "Y"
                    /\ nameHistory[n]["Last Seen Date"] = ""
                    /\ \E r \in LatestOf(NamedRows(sid)) :
                          NameKey(r) = Casefold(nameHistory[n]["Name Clean"])
                    /\ \A m \in Entries(sid) \ {n} :
                          /\ nameHistory[m]["Is Current"] = ""
                          /\ nameHistory[m]["Last Seen Date"] # ""

\* Series S1 was renamed: the history has a current entry and an earlier
\* name of the series with its last-seen date.
C15_Witness ==
    /\ phase = "idle"
    /\ \E n, m \in Entries("S1") :
          /\ nameHistory[n]["Is Current"] = "Y"
          /\ nameHistory[n]["Name"] = "Beta Fund"
          /\ nameHistory[m]["Name"] = "Alpha Fund"
          /\ nameHistory[m]["Last Seen Date"] = "2024-02-20"

\* The name and ticker on which the last pass of the rollup compares rows.
PairOf(t) == <<Casefold(Fillna(t["Canonical Fund Name"])), Upper(Fillna(t["Ticker (if any)"]))>>

\* The rows of the groups of the extraction file, one per group, before the
\* last pass.
GroupTable == GroupRows(DerivedFrame(ReadCsv(extracted)))

\* C16: after the last pass of the rollup no two Fund Status rows have the
\* same (case-folded canonical name, upper-cased ticker) pair, and of the
\* group rows that collide on a pair the one kept is the one with the most
\* recent latest-prospectus date.
C16_DedupKeepsLatest ==
    RolledUp =>
        /\ \A n, m \in 1..Len(fundStatus) :
              PairOf(fundStatus[n]) = PairOf(fundStatus[m]) => n = m
        /\ \A n \in 1..Len(fundStatus), k \in 1..Len(GroupTable) :
              PairOf(GroupTable[k]) = PairOf(fundStatus[n]) =>
                  Rank(Fillna(GroupTable[k]["Latest Prospectus Date"]))
                      <= Rank(fundStatus[n]["Latest Prospectus Date"])

\* The key the priority rule chooses for a row of the extraction file: the
\* class id, else the series id, else the normalized display name with the
\* upper-cased ticker, each with its level.
LevelKey(r) ==
    IF r["Class-Contract ID"] # "" THEN <<"class", r["Class-Contract ID"]>>
    ELSE IF r["Series ID"] # "" THEN <<"series", r["Series ID"]>>
    ELSE <<"name",
           Casefold(clean_fund_name_for_rollup(IF r["Class Contract Name"] # ""
                                               THEN r["Class Contract Name"]
                                               ELSE r["Series Name"])),
           Upper(r["Class Symbol"])>>

\* C17: rows are grouped by the class id if there is one, else by the
\* series id if there is one, else by normalized display name and
\* upper-cased ticker: two rows are in one group exactly when the keys so
\* chosen are equal, keys of different levels never being equal, and the
\* rollup builds one row per such key.
C17_GroupingKey ==
    RolledUp =>
        /\ \A i, j \in 1..Len(extracted) :
              GroupKeys[i] = GroupKeys[j] <=> LevelKey(extracted[i]) = LevelKey(extracted[j])
        /\ Len(GroupTable) = Cardinality({LevelKey(extracted[i]) : i \in 1..Len(extracted)})

\* A file with a row of each level has been rolled up, the class and the
\* series carrying the same identifier text.
C17_Witness ==
    /\ RolledUp
    /\ \E i, j, k \in 1..Len(extracted) :
          /\ LevelKey(extracted[i])[1] = "class"
          /\ LevelKey(extracted[j])[1] = "series"
          /\ LevelKey(extracted[k])[1] = "name"
          /\ LevelKey(extracted[i])[2] = LevelKey(extracted[j])[2]

\* C18: after every rollup run the Fund Status table is the rollup of the
\* extraction rows the run found and nothing else: when the extraction file
\* is empty or missing, no row of an earlier run is left in the table.
C18_RebuiltWholesale ==
    (phase = "step3" /\ hist # << >>) =>
        fundStatus = IF extracted = << >> THEN << >> ELSE Rollup(extracted)

(***************************************************************************)
(* The bulk loader: scan_for_etf_trusts and prime_cache over the archive   *)
(* of index documents, then the pipeline's fetch of the matched            *)
(* registrants' index documents through the fetch client.                  *)
(***************************************************************************)
MaxMembers == 2

\* bulk_loader.py:38
DEFAULT_TARGET_PREFIXES == {"485", "N-1A"}

RECURSIVE Zeros(_)
Zeros(n) == IF n <= 0 THEN "" ELSE "0" \o Zeros(n - 1)

\* f"{n:010d}"
Pad10(n) == Zeros(10 - Len(ToString(n))) \o ToString(n)

\* A member of the archive: its name in parts ("CIK", the padded number,
\* "" or the overflow mark, ".json"), the number in the name, and of its
\* JSON the cik field and the forms of filings.recent.  Its content is a
\* JSON object.
Member(n, part, cik, forms) ==
    [name |-> <<"CIK", Pad10(n), part, ".json">>, num |-> n, cik |-> cik, forms |-> forms,
     kind |-> "object"]

\* The member with another content: "bytes" that decode in no encoding,
\* "text" that is not JSON, or a JSON "array".
Content(m, kind) == [m EXCEPT !.kind = kind]

\* The members of the model's archives: registrant 7 with a 485BPOS filing
\* and its overflow file, registrant 9 with an N-1A filing, with none of the
\* target forms, or with a 485APOS filing and no cik field; and the
\* malformed files of registrant 9: undecodable bytes, text that is not JSON,
\* a JSON array, and an object with a 485BPOS filing whose cik is no number.
MemberPool ==
    {Member(7, "", "07", <<"485BPOS", "10-K">>),
     Member(7, "-submissions-001", "", << >>),
     Member(9, "", "9", <<"N-1A">>),
     Member(9, "", "9", <<"10-K">>),
     Member(9, "", "", <<" 485apos">>),
     Content(Member(9, "", "", << >>), "bytes"),
     Content(Member(9, "", "", << >>), "text"),
     Content(Member(9, "", "", << >>), "array"),
     Member(9, "", "x", <<"485BPOS">>)}

\* The archives: up to MaxMembers members, each name once.
Zips ==
    {z \in SeqsUpTo(MemberPool, MaxMembers) :
        \A i, j \in 1..Len(z) : z[i].name = z[j].name => i = j}

\* "-submissions-" in name
IsOverflow(m) == m.name[3] # ""

\* bulk_loader.py:114-120
_matches_target(form, target_prefixes) ==
    \E prefix \in target_prefixes : StartsWith(Upper(Strip(form)), Upper(prefix))

\* bulk_loader.py:170-183: the entry of a main file with a target form; the
\* cik is that of the JSON without its leading zeros, else that of the name.
ScanEntry(m) ==
    [cik |-> IF m.cik = "" THEN ToString(m.num) ELSE ToString(CikInt(m.cik)),
     forms |-> {f \in Range(m.forms) : _matches_target(f, DEFAULT_TARGET_PREFIXES)}]

\* bulk_loader.py:160: what json.loads(f.read()) gives for the member's
\* bytes: the parsed value, a JSONDecodeError for text that is not JSON, a
\* UnicodeDecodeError for bytes that do not decode.
json_loads(m) ==
    CASE m.kind = "object" -> "dict"
      [] m.kind = "array" -> "list"
      [] m.kind = "text" -> "JSONDecodeError"
      [] m.kind = "bytes" -> "UnicodeDecodeError"

\* bulk_loader.py:161, except (json.JSONDecodeError, KeyError, zipfile.BadZipFile)
Caught == {"JSONDecodeError", "KeyError", "BadZipFile"}

\* The target forms among the member's forms (bulk_loader.py:166-168).
Matching(m) == {f \in Range(m.forms) : _matches_target(f, DEFAULT_TARGET_PREFIXES)}

\* bulk_loader.py:158-177: the loop body raises for a main file when
\* json.loads raises an exception the except clause does not name, when the
\* value has no get (data.get at line 164), and when int(cik_str) at line
\* 177 raises for the cik of a file with a target form.
EntryRaises(m) ==
    /\ ~IsOverflow(m)
    /\ \/ json_loads(m) = "UnicodeDecodeError"
       \/ json_loads(m) = "list"
       \/ json_loads(m) = "dict" /\ Matching(m) # {} /\ m.cik # "" /\ ~IsNumber(m.cik)

\* scan_for_etf_trusts raises when the body raises for some member.
ScanRaises(zip) == \E i \in 1..Len(zip) : EntryRaises(zip[i])

RECURSIVE scan_for_etf_trusts(_)
\* bulk_loader.py:146-183: the list returned when no member raises.
scan_for_etf_trusts(zip) ==
    IF zip = << >> THEN << >>
    ELSE IF /\ ~IsOverflow(Head(zip))
            /\ json_loads(Head(zip)) \notin Caught
            /\ Matching(Head(zip)) # {}
    THEN <<ScanEntry(Head(zip))>> \o scan_for_etf_trusts(Tail(zip))
    ELSE scan_for_etf_trusts(Tail(zip))

\* The member's name kept as it is.
DestNameWithPrefix(name) == name[1] \o name[2] \o name[3] \o name[4]

\* bulk_loader.py:245, dest_name = name.replace("CIK", "")
DestName(name) == name[2] \o name[3] \o name[4]

\* async_client.py:84-86, _submissions_cache_path: the file name in the
\* submissions folder.
SubmissionsCachePath(cik_padded) == cik_padded \o ".json"

\* bulk_loader.py:219-221
MatchingCiksPadded(cik_list) == {Pad10(CikInt(cik_list[i].cik)) : i \in 1..Len(cik_list)}

\* bulk_loader.py:239-252: the members prime_cache copies.
Copied(zip, cik_list) ==
    LET Match(m) == m.name[2] \in MatchingCiksPadded(cik_list) IN SelectSeq(zip, Match)

\* bulk_loader.py:246-252: the submissions folder after the members of
\* copied are written; subCache[p] is the file the client reads for p.  A
\* write that raises leaves the folder as it was.
Primed(c, copied, ok) ==
    [p \in DOMAIN c |->
        IF ok /\ \E i \in 1..Len(copied) :
                    DestName(copied[i].name) = SubmissionsCachePath(Pad10(p))
        THEN Entry("json", 0, TRUE) ELSE c[p]]

\* bulk_loader.py:304: scan_for_etf_trusts; what it raises leaves bulk_load
\* through the finally of line 329.
ScanForEtfTrusts ==
    /\ bulk.pc = "scan"
    /\ bulk' = IF ScanRaises(bulk.zip)
               THEN [bulk EXCEPT !.pc = "aborted"]
               ELSE [bulk EXCEPT !.pc = "prime", !.matches = scan_for_etf_trusts(bulk.zip)]
    /\ UNCHANGED <<clientVars, extractVars, lastVars, ticker, nameHistory, driver>>

\* prime_cache
PrimeCache ==
    /\ bulk.pc = "prime"
    /\ subCache' = Primed(subCache, Copied(bulk.zip, bulk.matches), bulk.ok)
    /\ bulk' = [bulk EXCEPT !.pc = "primed",
                            !.cached = IF bulk.ok THEN Len(Copied(bulk.zip, bulk.matches)) ELSE 0]
    /\ UNCHANGED <<extractVars, lastVars, ticker, nameHistory, driver, mode, entry, cfgUA, userAgent,
                   rateLimit, items, webCache, pcBatch, order, idx, results, tasks,
                   sem, level, window, sent, writable, observe>>

\* The hours that may pass between the bulk load and the pipeline's fetch.
Elapsed == {0, 5, 6}

\* The pipeline asks the client for the index documents of the matched
\* registrants, h hours after the bulk load.
PipelineFetches ==
    /\ bulk.pc = "primed"
    /\ \E h \in Elapsed :
          /\ subCache' = [p \in DOMAIN subCache |->
                             IF subCache[p].present
                             THEN [subCache[p] EXCEPT !.age = @ + h] ELSE subCache[p]]
          /\ bulk' = [bulk EXCEPT !.pc = "done", !.elapsed = h]
    /\ items' = [i \in 1..Len(bulk.matches) |-> bulk.matches[i].cik]
    /\ mode' = "subs"
    /\ UNCHANGED <<extractVars, lastVars, ticker, nameHistory, driver, entry, cfgUA, userAgent,
                   rateLimit, webCache, pcBatch, order, idx, results, tasks,
                   sem, level, window, sent, writable, observe>>

BulkNext ==
    \/ ScanForEtfTrusts
    \/ PrimeCache
    \/ PipelineFetches
    \/ StartFetchSubmissionsBatch
    \/ TaskNext
    \/ Tick
    \/ CollectSubmissions

\* The archive is downloaded, the cache folder is empty, the client is built.
BulkInit ==
    /\ NoLast
    /\ IdleClient
    /\ p2 = << >>
    /\ extracted = << >>
    /\ fundStatus = << >>
    /\ phase = "idle"
    /\ hist = << >>
    /\ lastRun = NoRun
    /\ \E z \in Zips, ok \in BOOLEAN :
          bulk = [pc |-> "scan", zip |-> z, matches |-> << >>, cached |-> 0,
                  elapsed |-> 0, ok |-> ok]
    /\ ticker = NoCall
    /\ nameHistory = << >>
    /\ driver = NoDriver

SpecBulk == BulkInit /\ [][BulkNext]_vars

MaxTrusts == 3

\* The largest max_workers a run is started with in the model.
MaxWorkers == 2

\* What step3_extract_for_trust does for one registrant: it returns 0
\* (step3.py:87, 89, 193), it returns len(df_new) (step3.py:211), or one of
\* its reads or writes raises.
Step3Outcomes == {"zero", "count", "raise"}

\* The value step3_extract_for_trust returns: an int (step3.py:87-211).
Step3Returns(outcome) ==
    [kind |-> "int", val |-> IF outcome = "count" THEN 1 ELSE 0]

\* The dict the pool loop builds for a future that raised
\* (run_pipeline.py:192).
ErrorResult == [kind |-> "dict", new |-> 0, skipped |-> 0, errors |-> 1]

\* result.get exists for a dict and raises AttributeError for an int
\* (run_pipeline.py:194, 206).
HasGet(result) == result.kind = "dict"

Min(a, b) == IF a <= b THEN a ELSE b

\* workers = min(max_workers, len(trusts))  (run_pipeline.py:175)
Workers(d) == Min(d.max_workers, Len(d.trusts))

AllTrusts(d) == 1..Len(d.trusts)

\* The pool runs the submitted calls in submission order on `workers`
\* threads: call i has a thread once fewer than `workers` earlier calls are
\* unfinished (run_pipeline.py:180-186).
HasThread(d, i) ==
    Cardinality({j \in 1..(i - 1) : j \notin d.ran}) < Workers(d)

\* run_pipeline.py:174, the 0.1 of max_workers * 0.1, in hundredths of a
\* second (the unit of every pause of the model).
PausePerWorker == 10

\* The pause values run_pipeline is called with, in hundredths of a second:
\* 0.05, 0.1, 0.2 and the default 0.35 (run_pipeline.py:108).
Pauses == {5, 10, 20, 35}

\* effective_pause = max(pause, max_workers * 0.1)  (run_pipeline.py:174)
effective_pause(d) == Max(d.pause, d.max_workers * PausePerWorker)

\* The pause of the clients that extract: the workers' clients are built
\* with effective_pause (run_pipeline.py:182-183, 73-74), the single-worker
\* loop uses the client built with pause (run_pipeline.py:116, 204).
ClientPause(d) == IF d.pc = "single" THEN d.pause ELSE effective_pause(d)

\* The extractions under way: the submitted calls that have a thread and
\* have not ended, and the one call of a turn of the single-worker loop.
ActiveWorkers(d) ==
    IF d.pc = "single" THEN (IF d.next <= Len(d.trusts) THEN 1 ELSE 0)
    ELSE IF d.pc \in {"pool", "unwinding"}
    THEN Cardinality({i \in AllTrusts(d) \ d.ran : HasThread(d, i)})
    ELSE 0

\* metrics after the three += of the loop body (run_pipeline.py:194-196,
\* 206-208).
AddResult(d, result) ==
    [d EXCEPT !.new = @ + result.new,
              !.skipped = @ + result.skipped,
              !.errors = @ + result.errors]

\* run_pipeline.py:172-176, 201: the choice between the worker pool and the
\* single-worker loop.
StartStep3 ==
    /\ driver.pc = "step3"
    /\ driver' = [driver EXCEPT !.pc = IF Workers(driver) > 1 THEN "pool"
                                       ELSE "single"]
    /\ UNCHANGED <<clientVars, extractVars, lastVars, ticker, nameHistory, bulk>>

\* run_pipeline.py:69-76: one submitted _step3_worker call runs to its end on
\* a pool thread, also while the driver is leaving the with block.
WorkerRuns ==
    /\ driver.pc \in {"pool", "unwinding"}
    /\ \E i \in AllTrusts(driver) \ driver.ran :
          /\ HasThread(driver, i)
          /\ driver' = [driver EXCEPT !.ran = @ \cup {i}]
    /\ UNCHANGED <<clientVars, extractVars, lastVars, ticker, nameHistory, bulk>>

\* run_pipeline.py:187-199: one turn of the as_completed loop.  A future that
\* raised becomes the error dict; the result of one that returned is the int,
\* and result.get on it raises outside the try.
PoolCollect ==
    /\ driver.pc = "pool"
    /\ \E i \in driver.ran \ driver.collected :
          LET result == IF driver.trusts[i] = "raise" THEN ErrorResult
                        ELSE Step3Returns(driver.trusts[i])
          IN  IF HasGet(result)
              THEN driver' = [AddResult(driver, result)
                                 EXCEPT !.collected = @ \cup {i}]
              ELSE driver' = [driver EXCEPT !.pc = "unwinding",
                                            !.collected = @ \cup {i}]
    /\ UNCHANGED <<clientVars, extractVars, lastVars, ticker, nameHistory, bulk>>

\* run_pipeline.py:180: the with block's exit waits for every submitted call
\* and then lets the exception leave run_pipeline.
PoolExit ==
    /\ driver.pc = "unwinding"
    /\ driver.ran = AllTrusts(driver)
    /\ driver' = [driver EXCEPT !.pc = "aborted"]
    /\ UNCHANGED <<clientVars, extractVars, lastVars, ticker, nameHistory, bulk>>

\* The loop over the futures left after the first completed one.
FirstCompleted(d) == d.collected # {}

\* run_pipeline.py:187: as_completed has yielded every future.
AsCompletedExhausted(d) == d.collected = AllTrusts(d)

\* run_pipeline.py:187, 200: as_completed is exhausted.
PoolDone ==
    /\ driver.pc = "pool"
    /\ AsCompletedExhausted(driver)
    /\ driver' = [driver EXCEPT !.pc = "rollup"]
    /\ UNCHANGED <<clientVars, extractVars, lastVars, ticker, nameHistory, bulk>>

\* run_pipeline.py:203-210: one turn of the single-worker loop.  The call is
\* in no try: a raise leaves run_pipeline, and so does result.get on the int
\* a returning call gives.
SingleStep ==
    /\ driver.pc = "single"
    /\ driver.next <= Len(driver.trusts)
    /\ LET i == driver.next
       IN  IF driver.trusts[i] = "raise"
           THEN driver' = [driver EXCEPT !.pc = "aborted"]
           ELSE IF HasGet(Step3Returns(driver.trusts[i]))
                THEN driver' = [AddResult(driver, Step3Returns(driver.trusts[i]))
                                   EXCEPT !.ran = @ \cup {i},
                                          !.collected = @ \cup {i},
                                          !.next = @ + 1]
                ELSE driver' = [driver EXCEPT !.pc = "aborted",
                                              !.ran = @ \cup {i}]
    /\ UNCHANGED <<clientVars, extractVars, lastVars, ticker, nameHistory, bulk>>

\* run_pipeline.py:203: the single-worker loop has no registrant left.
SingleDone ==
    /\ driver.pc = "single"
    /\ driver.next > Len(driver.trusts)
    /\ driver' = [driver EXCEPT !.pc = "rollup"]
    /\ UNCHANGED <<clientVars, extractVars, lastVars, ticker, nameHistory, bulk>>

\* run_pipeline.py:213-214: step4_rollup_for_trust for the next registrant.
RollupLoop ==
    /\ driver.pc = "rollup"
    /\ driver.rolled # AllTrusts(driver)
    /\ driver' = [driver EXCEPT !.rolled = @ \cup {Cardinality(@) + 1}]
    /\ UNCHANGED <<clientVars, extractVars, lastVars, ticker, nameHistory, bulk>>

\* run_pipeline.py:216-217: step5_name_history_for_trust for the next
\* registrant, after the loop of step 4.
NameHistoryLoop ==
    /\ driver.pc = "rollup"
    /\ driver.rolled = AllTrusts(driver)
    /\ driver.named # AllTrusts(driver)
    /\ driver' = [driver EXCEPT !.named = @ \cup {Cardinality(@) + 1}]
    /\ UNCHANGED <<clientVars, extractVars, lastVars, ticker, nameHistory, bulk>>

\* run_pipeline.py:219-228: metrics.finish, save_run_summary, the summary
\* line, after the loops of steps 4 and 5.
Summarise ==
    /\ driver.pc = "rollup"
    /\ driver.rolled = AllTrusts(driver)
    /\ driver.named = AllTrusts(driver)
    /\ driver' = [driver EXCEPT !.pc = "done", !.summary = TRUE]
    /\ UNCHANGED <<clientVars, extractVars, lastVars, ticker, nameHistory, bulk>>

DriverNext ==
    \/ StartStep3
    \/ WorkerRuns
    \/ PoolCollect
    \/ PoolExit
    \/ PoolDone
    \/ SingleStep
    \/ SingleDone
    \/ RollupLoop
    \/ NameHistoryLoop
    \/ Summarise

\* run_pipeline.py:159-163: step 2 has returned the registrants.
DriverInit ==
    /\ NoLast
    /\ IdleClient
    /\ p2 = << >>
    /\ extracted = << >>
    /\ fundStatus = << >>
    /\ phase = "idle"
    /\ hist = << >>
    /\ lastRun = NoRun
    /\ ticker = NoCall
    /\ nameHistory = << >>
    /\ bulk = NoBulk
    /\ \E w \in 1..MaxWorkers, ts \in SeqsUpTo(Step3Outcomes, MaxTrusts), p \in Pauses :
          driver = [pc |-> "step3", max_workers |-> w, trusts |-> ts, pause |-> p,
                    ran |-> {}, collected |-> {}, next |-> 1,
                    rolled |-> {}, named |-> {},
                    new |-> 0, skipped |-> 0, errors |-> 0,
                    summary |-> FALSE]

SpecDriver == DriverInit /\ [][DriverNext]_vars

\* C20: run_pipeline always produces the driver-level summary after step 2,
\* whatever any registrant's extraction does: the run never leaves
\* run_pipeline by an exception, and a finished run has counted each raising
\* extraction as one error and processed every registrant, in the pool path
\* and in the single-worker path.
C20_SummaryAlwaysProduced ==
    /\ driver.pc # "aborted"
    /\ driver.pc = "done" =>
          /\ driver.summary
          /\ driver.ran = AllTrusts(driver)
          /\ driver.errors =
                Cardinality({i \in AllTrusts(driver) : driver.trusts[i] = "raise"})

\* The main files of the archive that are well formed (a JSON object whose
\* cik is absent or a number) and have a target form.
WellFormedMatches(zip) ==
    {i \in 1..Len(zip) :
        /\ ~IsOverflow(zip[i])
        /\ zip[i].kind = "object"
        /\ zip[i].cik = "" \/ IsNumber(zip[i].cik)
        /\ Matching(zip[i]) # {}}

\* C21: scan_for_etf_trusts never aborts because of a malformed archive
\* entry: the entry is skipped, and every well-formed registrant of the
\* archive whose forms match the target prefixes is returned.
C21_MalformedEntriesSkipped ==
    bulk.pc # "scan" =>
        /\ bulk.pc # "aborted"
        /\ \A i \in WellFormedMatches(bulk.zip) :
              \E k \in 1..Len(bulk.matches) : bulk.matches[k] = ScanEntry(bulk.zip[i])

\* fetch_many over an empty cache directory with up to BurstItems requests
\* of one url, by a client with a semaphore of up to MaxRate permits.
AdmitInit ==
    /\ mode = "many"
    /\ entry = "client"
    /\ cfgUA = OperatorUA
    /\ rateLimit \in 1..MaxRate
    /\ items \in SeqsUpTo({"u1"}, BurstItems)
    /\ webCache = [u \in Urls |-> NoEntry]
    /\ subCache = [p \in Paddeds |-> NoEntry]
    /\ writable = TRUE
    /\ observe = FALSE
    /\ Fresh

SpecAdmit == AdmitInit /\ [][FetchManyNext]_vars

\* The tasks whose GET is issued and whose response has not arrived.
InFlight == {t \in DOMAIN tasks : tasks[t].pc = "get"}

\* C22: at every moment the number of requests in flight is at most the
\* size rate_limit of the admission semaphore, for any number of tasks and
\* any interleaving, tasks retrying after a 429 included.
C22_InFlightBounded ==
    Cardinality(InFlight) <= rateLimit

\* The semaphore is exhausted by rate_limit >= 2 requests in flight, one of
\* them by a task that was admitted before, while another task waits for
\* admission.
C22_Witness ==
    /\ rateLimit >= 2
    /\ Cardinality(InFlight) = rateLimit
    /\ sem = 0
    /\ \E t \in DOMAIN tasks : tasks[t].pc = "sem" /\ tasks[t].depth = 0


\* The rows the strategies after the tagged text have for a filing: the
\* table and columnar rows of its primary HTML document, else the columnar
\* rows of its primary PDF document (body_extractors.py:84-111).
LaterStrategyRows(r, down) ==
    IF is_html_doc(r["Primary Link"])
       /\ extract_from_primary_html(r["Primary Link"], down)[1] # << >>
    THEN extract_from_primary_html(r["Primary Link"], down)[1]
    ELSE IF is_pdf_doc(r["Primary Link"])
    THEN extract_from_primary_pdf(r["Primary Link"], down)[1]
    ELSE << >>

\* The filing of the prospectus base with the accession number of a row.
FilingOf(row) ==
    p2[CHOOSE i \in 1..Len(p2) : p2[i]["Accession Number"] = row["Accession Number"]]

\* C23: extraction is a cascade: of a filing in which the tagged text gives
\* no row, the rows are those of the next strategy that yields any (HTML
\* table, plain-text columns, PDF text); the placeholder row without fund
\* data is emitted only when every strategy produced nothing.
C23_Cascade ==
    phase = "step4" =>
        \A k \in 1..Len(lastRun.new) :
            lastRun.new[k]["Extracted From"] = "NONE" =>
                LaterStrategyRows(FilingOf(lastRun.new[k]), lastRun.down) = << >>


\* The tagged-text rows of the filing a row of the last run comes from.
TaggedRowsOf(row) ==
    FetchedRows(FetchOrEmpty(FilingOf(row)["Full Submission TXT"], lastRun.down))

\* The row agrees with the tagged-text row base on the four identifying
\* columns.
SameClass(row, base) ==
    \A c \in {"Series ID", "Series Name", "Class-Contract ID", "Class Contract Name"} :
        row[c] = base[c]

\* C24: when the tagged text yields rows for a filing, every output row
\* keeps the identifiers and names of its tagged-text row; a ticker already
\* present on the tagged-text row is never overwritten, and a ticker that is
\* resolved for a row without one appends the strategy tag to the row's
\* source tag.
C24_TaggedRowsOnlyEnriched ==
    phase = "step4" =>
        \A k \in 1..Len(lastRun.new) :
            lastRun.new[k]["Extracted From"] # "NONE" =>
                \E j \in 1..Len(TaggedRowsOf(lastRun.new[k])) :
                    LET base == TaggedRowsOf(lastRun.new[k])[j]
                        row == lastRun.new[k]
                    IN  /\ SameClass(row, base)
                        /\ base["Class Symbol"] # "" =>
                              /\ row["Class Symbol"] = base["Class Symbol"]
                              /\ row["Extracted From"] = base["Extracted From"]
                        /\ base["Class Symbol"] = "" /\ row["Class Symbol"] # "" =>
                              row["Extracted From"] \in
                                  {base["Extracted From"] \o "|TITLE-PAREN",
                                   base["Extracted From"] \o "|LABEL-WINDOW"}


\* ===========================================================================
\* The body extractors as functions of the document they are given
\* (src/etp_tracker/body_extractors.py:49-111)
\* ===========================================================================

\* The most data rows of a table and the most lines of a text in the model.
MaxBodyRows == 1

\* The last cells and trailing tokens of the model's documents.
BodyTokens == {"AAA", " aaa ", "ETF", "FUND", "USD", "123", "ABCDEFG", "n/a", ""}

\* The rows of a table under its header and the lines of a text, as cells
\* and as the parts between runs of two or more blanks: a name alone, or a
\* name and a token.
DataRows == {<<"Alpha Fund">>} \cup {<<"Alpha Fund", t>> : t \in BodyTokens}

\* The header row of a fund table.
HeaderRow == <<"Fund Name", "Ticker">>

\* The tables of the model: with or without the header row, up to
\* MaxBodyRows data rows.
Tables ==
    {h \o d : h \in {<< >>, <<HeaderRow>>}, d \in SeqsUpTo(DataRows, MaxBodyRows)}

\* re.search(r"(fund|series|name)", cell, re.I) and re.search(r"ticker",
\* cell, re.I) on the cells of the model.
NameLike(cell) == cell \in {"Fund Name", "Alpha Fund", "FUND"}
TickerLike(cell) == cell = "Ticker"

\* body_extractors.py:57-58: the test on the text of all cells of the table.
IsFundTable(tbl) ==
    /\ \E i \in 1..Len(tbl) : \E j \in 1..Len(tbl[i]) : NameLike(tbl[i][j])
    /\ \E i \in 1..Len(tbl) : \E j \in 1..Len(tbl[i]) : TickerLike(tbl[i][j])

\* [A-Z0-9]
IsAlnum(c) == IsAlpha(c) \/ c \in {"0", "1", "2", "3", "4", "5", "6", "7", "8", "9"}

\* re.fullmatch(r"[A-Z0-9]{1,6}", tkr)
FullMatchTicker(tkr) ==
    /\ 1 <= Len(Chars[tkr]) /\ Len(Chars[tkr]) <= 6
    /\ \A i \in 1..Len(Chars[tkr]) : IsAlnum(Chars[tkr][i])

\* cells[-1].strip().upper()
LastCell(cells) == Upper(Strip(cells[Len(cells)]))

\* body_extractors.py:61-63, 74-76, 103-105: the cells make a row.
MakesRow(cells) == Len(cells) >= 2 /\ FullMatchTicker(LastCell(cells))

RECURSIVE RowsOfCells(_, _)
\* body_extractors.py:59-68, 72-81, 101-110: the rows of a sequence of cell
\* lists, tagged with the strategy.
RowsOfCells(lists, tag) ==
    IF lists = << >> THEN << >>
    ELSE IF MakesRow(Head(lists))
    THEN <<[HtmlRow(Head(lists)[1], LastCell(Head(lists)))
               EXCEPT !["Extracted From"] = tag]>>
         \o RowsOfCells(Tail(lists), tag)
    ELSE RowsOfCells(Tail(lists), tag)

\* body_extractors.py:53-70: the rows of the fund tables, none without
\* BeautifulSoup.
TableRows(doc) ==
    IF doc.bs4 /\ doc.tables # << >> /\ IsFundTable(doc.tables[1])
    THEN RowsOfCells(doc.tables[1], "PRIMARY-HTML")
    ELSE << >>

\* body_extractors.py:49-82: the rows extract_from_html_string returns.
HtmlStringRows(doc) ==
    IF TableRows(doc) # << >> THEN TableRows(doc)
    ELSE RowsOfCells(doc.lines, "PRIMARY-HTML")

\* body_extractors.py:93-111: the rows extract_from_primary_pdf returns.
PrimaryPdfRows(doc) ==
    IF ~doc.fetched THEN << >> ELSE RowsOfCells(doc.lines, "PRIMARY-PDF")

\* extract_from_html_string(html_text)
ExtractFromHtmlString ==
    /\ body.pc = "call"
    /\ body.fn = "html"
    /\ body' = [body EXCEPT !.pc = "returned", !.rows = HtmlStringRows(body.doc)]
    /\ UNCHANGED <<clientVars, extractVars, laterVars, service>>

\* extract_from_primary_pdf(client, url)
ExtractFromPrimaryPdf ==
    /\ body.pc = "call"
    /\ body.fn = "pdf"
    /\ body' = [body EXCEPT !.pc = "returned", !.rows = PrimaryPdfRows(body.doc)]
    /\ UNCHANGED <<clientVars, extractVars, laterVars, service>>

BodyNext ==
    \/ ExtractFromHtmlString
    \/ ExtractFromPrimaryPdf

\* A body extractor is called: on an HTML document with at most one table,
\* with or without BeautifulSoup, or on the link of a PDF document whose
\* fetch and text extraction succeed or raise.
BodyInit ==
    /\ IdleClient
    /\ p2 = << >>
    /\ extracted = << >>
    /\ fundStatus = << >>
    /\ phase = "idle"
    /\ hist = << >>
    /\ lastRun = NoRun
    /\ ticker = NoCall
    /\ nameHistory = << >>
    /\ bulk = NoBulk
    /\ driver = NoDriver
    /\ service = NoService
    /\ \/ \E t \in SeqsUpTo(Tables, 1), l \in SeqsUpTo(DataRows, MaxBodyRows),
             b \in BOOLEAN :
             body = [pc |-> "call", fn |-> "html",
                     doc |-> [tables |-> t, lines |-> l, bs4 |-> b, fetched |-> TRUE],
                     rows |-> << >>]
       \/ \E l \in SeqsUpTo(DataRows, MaxBodyRows), f \in BOOLEAN :
             body = [pc |-> "call", fn |-> "pdf",
                     doc |-> [tables |-> << >>, lines |-> l, bs4 |-> TRUE, fetched |-> f],
                     rows |-> << >>]

SpecBody == BodyInit /\ [][BodyNext]_vars

\* C25: every row of the HTML-table strategy and of the columnar fallbacks
\* carries a ticker that passed ticker validation, 1 to 6 alphanumeric
\* characters and not in the stopword list: a trailing cell or token equal to
\* ETF, FUND or USD never yields a row.
C25_RowsCarryValidTicker ==
    body.pc = "returned" =>
        \A i \in 1..Len(body.rows) :
            /\ FullMatchTicker(body.rows[i]["Class Symbol"])
            /\ body.rows[i]["Class Symbol"] \notin _TICKER_STOPWORDS


\* The texts step 3 examines for the filing of a row of the last run.
TextsExamined(row) ==
    FilingTexts(FetchOrEmpty(FilingOf(row)["Full Submission TXT"], lastRun.down),
                FilingOf(row)["Primary Link"], lastRun.down).texts

\* The effective date of the header of the filing of a row of the last run.
HeaderDate(row) ==
    _extract_effectiveness_from_hdr(
        FetchOrEmpty(FilingOf(row)["Full Submission TXT"], lastRun.down))

\* C26: the delaying-amendment flag of a filing is set whenever any of the
\* texts examined for it contains a delaying-amendment phrase, whether or
\* not an effective date was found in the header or an earlier text; and a
\* header-derived effective date is never replaced by a body-derived one.
C26_DelayingFlagIndependent ==
    phase = "step4" =>
        \A k \in 1..Len(lastRun.new) :
            /\ (\E i \in 1..Len(TextsExamined(lastRun.new[k])) :
                    _find_effective_date_in_text(TextsExamined(lastRun.new[k])[i])[2])
                  => lastRun.new[k]["Delaying Amendment"] = "Y"
            /\ HeaderDate(lastRun.new[k]) # ""
                  => lastRun.new[k]["Effective Date"] = HeaderDate(lastRun.new[k])


\* C27: step 4 and step 5 of any registrant start only after the step-3
\* extraction of every registrant has finished and all workers have ended,
\* and step 5 starts only after step 4 has run for all registrants.
C27_RollupAfterExtraction ==
    /\ driver.rolled # {} =>
          /\ driver.ran = AllTrusts(driver)
          /\ driver.pc \notin {"pool", "unwinding", "single"}
    /\ driver.named # {} => driver.rolled = AllTrusts(driver)

\* The worker pool has extracted two or more registrants, step 4 has run
\* for all of them and step 5 has started.
C27_Witness ==
    /\ Workers(driver) > 1
    /\ driver.rolled = AllTrusts(driver)
    /\ driver.named # {}
    /\ driver.named # AllTrusts(driver)


\* C28: for every max_workers, every pause and every number of
\* registrants the aggregate request rate of step 3, the number of active
\* workers divided by the pause of their clients, stays strictly under 10
\* requests per second (pauses in hundredths of a second: 100 * workers /
\* pause < 10).
C28_RateUnderCeiling ==
    ActiveWorkers(driver) > 0 =>
        100 * ActiveWorkers(driver) < 10 * ClientPause(driver)

\* ---------------------------------------------------------------------
\* webapp/services/pipeline_service.py: run_pipeline_background
\* ---------------------------------------------------------------------

\* The concurrent calls of run_pipeline_background.
MaxCalls == 3

Calls == 1..MaxCalls

\* An acquire that always succeeds.
AlwaysFree(s) == TRUE

\* _pipeline_lock.acquire(blocking=False) succeeds: the lock is free
\* (pipeline_service.py:36).  s.lock holds the call that has the lock, 0 when
\* it is free.
LockFree(s) == s.lock = 0

\* The statement a call is at, by its line of pipeline_service.py; new: not
\* yet called; skipped: returned at line 38; returned: fell off the end;
\* raised: left the function by an exception.
Ended == {"skipped", "returned", "raised"}

\* The lines of the try block that call the pipeline and the sync.
Executing == {"55", "65", "68"}

\* is_pipeline_running()  (pipeline_service.py:27-29)
is_pipeline_running == service.running

At(c, line) == service.pc = "serving" /\ service.calls[c] = line

Goto(s, c, line) == [s EXCEPT !.calls[c] = line]

ServiceStep(s) ==
    /\ service' = s
    /\ UNCHANGED <<clientVars, extractVars, laterVars, body>>

\* A request or the scheduler calls run_pipeline_background.
RunPipelineBackground(c) ==
    /\ At(c, "new")
    /\ ServiceStep(Goto(service, c, "36"))

\* if not _pipeline_lock.acquire(blocking=False): log.warning; return
\* (pipeline_service.py:36-38)
LockAcquire(c) ==
    /\ At(c, "36")
    /\ IF LockFree(service)
       THEN ServiceStep([Goto(service, c, "40") EXCEPT !.lock = c])
       ELSE ServiceStep(Goto(service, c, "skipped"))

\* _pipeline_running = True  (pipeline_service.py:40)
SetRunning(c) ==
    /\ At(c, "40")
    /\ ServiceStep([Goto(service, c, "41") EXCEPT !.running = TRUE])

\* db = SessionLocal()  (pipeline_service.py:41); an exception leaves the
\* function, the statement is outside the try.
OpenSession(c) ==
    /\ At(c, "41")
    /\ \E ok \in BOOLEAN :
          ServiceStep(Goto(service, c, IF ok THEN "43" ELSE "raised"))

\* run = PipelineRun(status="running"); db.add(run); db.commit()
\* (pipeline_service.py:43-49); outside the try as well.
RecordRun(c) ==
    /\ At(c, "43")
    /\ \E ok \in BOOLEAN :
          IF ok
          THEN ServiceStep([Goto(service, c, "55") EXCEPT !.runs[c] = "running"])
          ELSE ServiceStep(Goto(service, c, "raised"))

\* n = run_pipeline(...)  (pipeline_service.py:55-61); an exception goes to
\* the except clause.
CallRunPipeline(c) ==
    /\ At(c, "55")
    /\ \E ok \in BOOLEAN :
          ServiceStep(Goto(service, c, IF ok THEN "65" ELSE "77"))

\* seed_trusts(db); sync_all(db, OUTPUT_DIR)  (pipeline_service.py:65-66)
SyncToDb(c) ==
    /\ At(c, "65")
    /\ \E ok \in BOOLEAN :
          ServiceStep(Goto(service, c, IF ok THEN "68" ELSE "77"))

\* run.status = "completed"; ...; db.commit()  (pipeline_service.py:68-71)
MarkCompleted(c) ==
    /\ At(c, "68")
    /\ \E ok \in BOOLEAN :
          IF ok
          THEN ServiceStep([Goto(service, c, "83") EXCEPT !.runs[c] = "completed"])
          ELSE ServiceStep(Goto(service, c, "77"))

\* except Exception: run.status = "failed"; ...; db.commit()
\* (pipeline_service.py:75-80); when this commit raises the exception
\* passes through the finally clause.
MarkFailed(c) ==
    /\ At(c, "77")
    /\ \E ok \in BOOLEAN :
          IF ok
          THEN ServiceStep([Goto(service, c, "83") EXCEPT !.runs[c] = "failed"])
          ELSE ServiceStep([Goto(service, c, "83") EXCEPT !.exc = @ \cup {c}])

\* finally: db.close()  (pipeline_service.py:82-83)
CloseSession(c) ==
    /\ At(c, "83")
    /\ ServiceStep(Goto(service, c, "84"))

\* _pipeline_running = False  (pipeline_service.py:84)
ResetRunning(c) ==
    /\ At(c, "84")
    /\ ServiceStep([Goto(service, c, "85") EXCEPT !.running = FALSE])

\* _pipeline_lock.release()  (pipeline_service.py:85), then the function
\* returns or the pending exception goes on.
LockRelease(c) ==
    /\ At(c, "85")
    /\ ServiceStep([Goto(service, c, IF c \in service.exc THEN "raised" ELSE "returned")
                      EXCEPT !.lock = 0])

CallNext(c) ==
    \/ RunPipelineBackground(c)
    \/ LockAcquire(c)
    \/ SetRunning(c)
    \/ OpenSession(c)
    \/ RecordRun(c)
    \/ CallRunPipeline(c)
    \/ SyncToDb(c)
    \/ MarkCompleted(c)
    \/ MarkFailed(c)
    \/ CloseSession(c)
    \/ ResetRunning(c)
    \/ LockRelease(c)

ServiceNext == \E c \in Calls : CallNext(c)

\* The module is imported: the lock is free, the flag is False
\* (pipeline_service.py:19-20), no call has been made.
ServiceInit ==
    /\ IdleClient
    /\ p2 = << >>
    /\ extracted = << >>
    /\ fundStatus = << >>
    /\ phase = "idle"
    /\ hist = << >>
    /\ lastRun = NoRun
    /\ ticker = NoCall
    /\ nameHistory = << >>
    /\ bulk = NoBulk
    /\ driver = NoDriver
    /\ body = NoBody
    /\ service = [pc |-> "serving", lock |-> 0, running |-> FALSE,
                  calls |-> [c \in Calls |-> "new"],
                  runs |-> [c \in Calls |-> "none"],
                  exc |-> {}]

SpecService == ServiceInit /\ [][ServiceNext]_vars

\* Every call that can take a step eventually takes one: each call runs in
\* a thread of its own.
SpecServiceFair ==
    SpecService /\ \A c \in Calls : WF_vars(CallNext(c))

\* The calls that are running the pipeline or the sync.
ExecutingCalls == {c \in Calls : service.calls[c] \in Executing}

\* A call found the lock held: it returns and nothing else changes.
SkipChangesNothing ==
    \A c \in Calls :
        (service.calls[c] = "36" /\ service.lock # 0 /\ service'.calls[c] # "36")
            => service' = Goto(service, c, "skipped")

\* C29: at most one call of run_pipeline_background runs the pipeline at a
\* time; a call that finds the lock held returns without running the
\* pipeline, without a run record and without changing the running flag;
\* is_pipeline_running() is true while a call runs the pipeline.
C29_SingleRun ==
    /\ [](service.pc = "serving" =>
            /\ Cardinality(ExecutingCalls) <= 1
            /\ (ExecutingCalls # {} => is_pipeline_running)
            /\ \A c \in Calls :
                 service.calls[c] = "skipped" => service.runs[c] = "none")
    /\ [][service.pc = "serving" => SkipChangesNothing]_vars

C29_Witness ==
    /\ service.pc = "serving"
    /\ \E c, d \in Calls :
         /\ service.calls[c] = "55"
         /\ service.calls[d] = "skipped"
         /\ is_pipeline_running

\* C30: every call of run_pipeline_background that acquired the lock
\* eventually releases it with the running flag reset to false, whether the
\* pipeline succeeds or raises or opening the session or recording the run
\* raises; afterwards a new run can start.
C30_LockAlwaysReleased ==
    /\ \A c \in Calls :
          (service.pc = "serving" /\ service.lock = c)
              ~> (service.lock # c /\ service.calls[c] \in Ended)
    /\ [][\A c \in Calls :
            (service.pc = "serving" /\ service.lock = c /\ service'.lock # c)
                => (service'.lock = 0 /\ ~service'.running)]_vars

====
